---------------------------- MODULE Spec2Model ----------------------------
(***************************************************************************)
(* A model of src/src/main.c: create_renderer() from the instance to the   *)
(* sync objects, the renderer's swapchain negotiation, the frame loop of   *)
(* main() / renderer_draw(), the swapchain rebuild that renderer_draw()    *)
(* runs on a stale chain, renderer_destroy(), and the GPU that executes    *)
(* the submitted work asynchronously.                                      *)
(*                                                                         *)
(* The Vulkan implementation and the windowing layer are the environment:  *)
(* their answers (result codes, capability snapshots, image counts, window *)
(* events) are drawn from small sets.  Object handles are modelled as      *)
(* values that name what the object was created from, and the sets live*   *)
(* hold the handles the API has created and not yet destroyed.             *)
(***************************************************************************)
EXTENDS Integers, Sequences, FiniteSets

(***************************************************************************)
(* Bounds of the model.                                                    *)
(***************************************************************************)
\* loop iterations of main() that are explored: a rebuild in one frame and
\* the frame that follows it
MaxTicks == 2
\* largest minImageCount a capability snapshot reports
MaxMinImageCount == 3
\* largest extent component of the enumerated capability snapshots
MaxDim == 3
\* largest number of queue families a physical device reports
MaxFamilies == 2
\* largest number of physical devices, surface formats or present modes
\* an enumeration returns
MaxEnum == 2

(***************************************************************************)
(* Program constants.  TLC's integers are 32 bits wide and signed, so the   *)
(* program's u32 is modelled 16 bits wide: arithmetic wraps at U32_MOD and *)
(* the all-ones value stands for 0xFFFFFFFF.                               *)
(***************************************************************************)
\* main.c:716  0xFFFFFFFF, the all-ones width that marks the undefined
\* current extent
UNDEFINED_EXTENT == 65535
\* main.c:1566 / 1567  the initial window size
INITIAL_WIDTH == 1280
INITIAL_HEIGHT == 720
\* main.c:724  the modulus of the (u32) the window size is cast to
U32_MOD == 65536

VARIABLES
  pc,                     \* position of the control thread in main()
  caller,                 \* who called the swapchain creation functions
  exit_status,            \* process exit status, -1 while running
  window,                 \* window_t: running, size, ticks, resized
  surface_caps,           \* renderer.surface_info.surface_caps
  swapchain_extent,       \* renderer.swapchain_extent
  swapchain,              \* renderer.swapchain (handle)
  swapchain_image_count,  \* renderer.swapchain_image_count
  swapchain_images,       \* renderer.swapchain_images
  swapchain_image_views,  \* renderer.swapchain_image_views
  swapchain_framebuffers, \* renderer.swapchain_framebuffers
  create_info,            \* the VkSwapchainCreateInfoKHR of the last create
  command_buffer,         \* what renderer.command_buffer holds
  in_flight_fence,        \* "signaled" / "unsignaled"
  image_available_semaphore, \* "unsignaled" / "pending" / "signaled"
  render_finished_semaphore, \* "unsignaled" / "signaled"
  image_index,            \* local of renderer_draw
  queue,                  \* work the device has accepted and not finished
  liveSwapchains,         \* swapchain handles created and not destroyed
  liveImageViews,         \* image views created and not destroyed
  liveFramebuffers,       \* framebuffers created and not destroyed
  next_handle,            \* the next swapchain handle the driver hands out
  vk_errors,              \* VK_CHECK calls that printed an error
  called_after_error,     \* an API call was made after a VK_CHECK failure
  frame,                  \* what the current renderer_draw call has done
  prev,                   \* what triggered a rebuild in the previous call
  resize_chain,           \* swapchain current when a resize was last reported
  DEBUG,                  \* TRUE when the build defines DEBUG (main.c:20)
  instance,               \* renderer.instance
  debug_messenger,        \* renderer.debug_messenger
  surface,                \* renderer.surface
  physical_device,        \* renderer.physical_device (index + 1, 0 unset)
  device,                 \* renderer.device
  queue_family_indices,   \* renderer.queue_family_indices
  graphics_queue,         \* renderer.graphics_queue
  present_queue,          \* renderer.present_queue
  surface_format,         \* renderer.surface_info.surface_format
  present_mode,           \* renderer.surface_info.present_mode
  render_pass,            \* renderer.render_pass
  vert_shader_module,     \* renderer.vert_shader_module
  frag_shader_module,     \* renderer.frag_shader_module
  pipeline_layout,        \* renderer.pipeline_layout
  graphics_pipeline,      \* renderer.graphics_pipeline
  viewport,               \* renderer.viewport (width and height)
  scissor,                \* renderer.scissor (extent)
  command_pool,           \* renderer.command_pool
  enumerated,             \* what the enumeration calls last returned
  device_cinfo,           \* the VkDeviceCreateInfo of vkCreateDevice
  api_log,                \* the create and destroy calls made, in order
  arena                   \* arrays nh_arena_alloc has handed out of renderer.arena

\* the fields of renderer_t the spec calls the device context
DeviceContext == << instance, debug_messenger, surface, physical_device,
                    device, queue_family_indices, graphics_queue,
                    present_queue >>

\* the fields of renderer_t the spec calls the pipeline state
PipelineState == << render_pass, vert_shader_module, frag_shader_module,
                    pipeline_layout, graphics_pipeline, viewport, scissor >>

\* the fields renderer_create_swapchain negotiates besides the capabilities
SurfaceInfo == << surface_format, present_mode >>

\* the swapchain and what is made per image of it
ChainState == << surface_caps, swapchain_extent, swapchain,
                 swapchain_image_count, swapchain_images,
                 swapchain_image_views, swapchain_framebuffers, create_info,
                 liveSwapchains, liveImageViews, liveFramebuffers,
                 next_handle >>

\* the command buffer, the sync objects, the device's work and what
\* renderer_draw has done
FrameState == << command_buffer, in_flight_fence, image_available_semaphore,
                 render_finished_semaphore, image_index, queue, vk_errors,
                 frame, prev, resize_chain >>

vars == << pc, caller, exit_status, window, surface_caps, swapchain_extent,
           swapchain, swapchain_image_count, swapchain_images,
           swapchain_image_views, swapchain_framebuffers, create_info,
           command_buffer, in_flight_fence, image_available_semaphore,
           render_finished_semaphore, image_index, queue, liveSwapchains,
           liveImageViews, liveFramebuffers, next_handle, vk_errors,
           called_after_error, frame, prev, resize_chain, DEBUG,
           DeviceContext, SurfaceInfo, PipelineState, command_pool,
           enumerated, device_cinfo, api_log, arena >>

(***************************************************************************)
(* Values.                                                                 *)
(***************************************************************************)
Extent(w, h) == [width |-> w, height |-> h]

\* the reserved "undefined" current extent of VkSurfaceCapabilitiesKHR
SentinelExtent == Extent(UNDEFINED_EXTENT, UNDEFINED_EXTENT)

\* VK_NULL_HANDLE / a field not yet written
NoHandle == 0

\* (u32) of an int
ToU32(x) == x % U32_MOD

\* NH_CLAMP(x, min, max) of nh_base.h
NH_CLAMP(x, lo, hi) == IF x < lo THEN lo ELSE IF x > hi THEN hi ELSE x


(***************************************************************************)
(* The environment's answers.                                              *)
(***************************************************************************)
\* results of vkAcquireNextImageKHR and vkQueuePresentKHR that the switch
\* statements of renderer_draw tell apart
VK_SUCCESS == "VK_SUCCESS"
VK_SUBOPTIMAL_KHR == "VK_SUBOPTIMAL_KHR"
VK_ERROR_OUT_OF_DATE_KHR == "VK_ERROR_OUT_OF_DATE_KHR"
VK_ERROR_DEVICE_LOST == "VK_ERROR_DEVICE_LOST"

StaleResults == {VK_ERROR_OUT_OF_DATE_KHR, VK_SUBOPTIMAL_KHR}
AcquireResults == {VK_SUCCESS, VK_ERROR_DEVICE_LOST} \cup StaleResults
PresentResults == {VK_SUCCESS, VK_ERROR_DEVICE_LOST} \cup StaleResults
\* results of vkQueueSubmit, which is wrapped in VK_CHECK
SubmitResults == {VK_SUCCESS, VK_ERROR_DEVICE_LOST}

\* a VkSurfaceCapabilitiesKHR snapshot, as far as renderer_create_swapchain
\* reads it
Caps(minCount, maxCount, cur, minE, maxE) ==
  [minImageCount |-> minCount, maxImageCount |-> maxCount,
   currentExtent |-> cur, minImageExtent |-> minE, maxImageExtent |-> maxE]

\* image count limits a surface may report: maxImageCount is 0 (no limit) or
\* at least minImageCount
ImageCountLimits ==
  { <<lo, hi>> \in (1..MaxMinImageCount) \X (0..(MaxMinImageCount + 1)) :
      hi = 0 \/ hi >= lo }

\* extent limits with min <= max in both components
ExtentLimits ==
  { <<lo, hi>> \in [width : 1..MaxDim, height : 1..MaxDim]
                   \X [width : 1..MaxDim, height : 1..MaxDim] :
      lo.width <= hi.width /\ lo.height <= hi.height }

\* the snapshots of the bounded family: every image count limit with one
\* extent limit, and every extent limit with one image count limit, the
\* current extent being the sentinel or an extent within the limits
AllCaps ==
  { Caps(n[1], n[2], cur, Extent(1, 1), Extent(MaxDim, MaxDim)) :
      n \in ImageCountLimits,
      cur \in {SentinelExtent, Extent(1, 1)} } \cup
  { Caps(2, 0, SentinelExtent, e[1], e[2]) : e \in ExtentLimits } \cup
  { Caps(2, 0, e[1], e[1], e[2]) : e \in ExtentLimits } \cup
  { Caps(2, 0, e[2], e[1], e[2]) : e \in ExtentLimits } \cup
  { Caps(2, 0, cur, Extent(1, 1), Extent(4096, 4096)) :
      cur \in {SentinelExtent, Extent(800, 600)} }

\* window sizes of the bounded family, some below and some above the limits
AllWindowSizes ==
  [x : 0..(MaxDim + 1), y : 0..(MaxDim + 1)] \cup
  { [x |-> 800, y |-> 600], [x |-> INITIAL_WIDTH, y |-> INITIAL_HEIGHT] }

\* the snapshots the frame loop is explored with: a surface that follows the
\* window (current = min = max), and a surface with an undefined current
\* extent and wide limits
FrameCaps ==
  { Caps(1, 0, Extent(2, 1), Extent(2, 1), Extent(2, 1)),
    Caps(2, 2, Extent(1, 1), Extent(1, 1), Extent(MaxDim, MaxDim)),
    Caps(2, 3, SentinelExtent, Extent(1, 1), Extent(MaxDim, MaxDim)) }

\* sizes a resize event may report in the frame loop
ResizeSizes == { [x |-> MaxDim + 1, y |-> 1] }

\* the number of images the driver creates for a chain: at least the
\* minImageCount of the create info, at most a nonzero maxImageCount
ActualImageCounts(caps, requested) ==
  { n \in requested..(requested + 1) :
      caps.maxImageCount = 0 \/ n <= caps.maxImageCount }

(***************************************************************************)
(* What the build requests and what the enumeration calls answer.          *)
(***************************************************************************)
\* a handle of an object of which the program creates one
Handle == 1

\* main.c:20-37: the layers and instance extensions of the configuration
layers ==
  IF DEBUG THEN << "VK_LAYER_KHRONOS_validation", "VK_LAYER_NV_optimus" >>
           ELSE << >>
inst_extensions == IF DEBUG THEN << "VK_EXT_debug_utils" >> ELSE << >>
\* main.c:38-42
dev_extensions == << "VK_KHR_swapchain" >>

\* main.c:244-257: the extensions SDL_Vulkan_GetInstanceExtensions reports
SdlInstanceExtensions == << "VK_KHR_surface", "VK_KHR_xcb_surface" >>

\* main.c:258-263: the windowing layer's extensions, then the build's
inst_extensions_used == SdlInstanceExtensions \o inst_extensions

\* non-empty sequences over S of length at most n
SeqsUpTo(S, n) == UNION { [1..k -> S] : k \in 1..n }

\* sets of layers / extensions an implementation may report as supported
AllLayerSets ==
  SUBSET { "VK_LAYER_KHRONOS_validation", "VK_LAYER_NV_optimus" }
AllInstExtensionSets ==
  { {"VK_KHR_surface"} \cup x :
      x \in SUBSET { "VK_KHR_xcb_surface", "VK_EXT_debug_utils" } }
AllDevExtensionSets == { {}, {"VK_KHR_swapchain"}, {"VK_KHR_maintenance1"},
                         {"VK_KHR_swapchain", "VK_KHR_maintenance1"} }

\* the answers of an implementation that supports everything requested
FrameLayerSets == { { "VK_LAYER_KHRONOS_validation", "VK_LAYER_NV_optimus" } }
FrameInstExtensionSets ==
  { { "VK_KHR_surface", "VK_KHR_xcb_surface", "VK_EXT_debug_utils" } }
FrameDevExtensionSets == { {"VK_KHR_swapchain"} }

\* VkPhysicalDeviceType, as far as renderer_pick_physical_device tells the
\* values apart
DeviceTypes == { "DISCRETE_GPU", "INTEGRATED_GPU", "CPU" }
AllDeviceLists == SeqsUpTo(DeviceTypes, MaxEnum)
FrameDeviceLists == { << "INTEGRATED_GPU", "DISCRETE_GPU" >> }

\* a queue family: whether queueFlags has VK_QUEUE_GRAPHICS_BIT and whether
\* vkGetPhysicalDeviceSurfaceSupportKHR reports support for the surface
QueueFamily(g, p) == [graphics |-> g, present |-> p]
AllFamilyLists ==
  { << >> } \cup
  SeqsUpTo({ QueueFamily(g, p) : g \in BOOLEAN, p \in BOOLEAN }, MaxFamilies)
FrameFamilyLists ==
  { << QueueFamily(TRUE, FALSE), QueueFamily(TRUE, TRUE) >> }
\* the lists the swapchain is created after: one family for both roles, or
\* a family for each role, in either order
BuiltFamilyLists ==
  FrameFamilyLists \cup
  { << QueueFamily(TRUE, FALSE), QueueFamily(FALSE, TRUE) >>,
    << QueueFamily(FALSE, TRUE), QueueFamily(TRUE, FALSE) >> }

\* VkSurfaceFormatKHR
SurfaceFormat(f, c) == [format |-> f, colorSpace |-> c]
PreferredFormat ==
  SurfaceFormat("VK_FORMAT_B8G8R8A8_SRGB", "VK_COLORSPACE_SRGB_NONLINEAR_KHR")
SurfaceFormats ==
  { PreferredFormat,
    SurfaceFormat("VK_FORMAT_B8G8R8A8_SRGB",
                  "VK_COLOR_SPACE_DISPLAY_P3_NONLINEAR_EXT"),
    SurfaceFormat("VK_FORMAT_R8G8B8A8_UNORM",
                  "VK_COLORSPACE_SRGB_NONLINEAR_KHR") }
NoFormat == SurfaceFormat("VK_FORMAT_UNDEFINED", "")
AllFormatLists == SeqsUpTo(SurfaceFormats, MaxEnum)
FrameFormatLists ==
  { << SurfaceFormat("VK_FORMAT_R8G8B8A8_UNORM",
                     "VK_COLORSPACE_SRGB_NONLINEAR_KHR"),
       PreferredFormat >> }

\* VkPresentModeKHR
VK_PRESENT_MODE_FIFO_KHR == "VK_PRESENT_MODE_FIFO_KHR"
PresentModes == { VK_PRESENT_MODE_FIFO_KHR, "VK_PRESENT_MODE_MAILBOX_KHR",
                  "VK_PRESENT_MODE_IMMEDIATE_KHR" }
NoPresentMode == "unassigned"
AllPresentModeLists == SeqsUpTo(PresentModes, MaxEnum)
FramePresentModeLists == { << VK_PRESENT_MODE_FIFO_KHR >> }

\* what the enumeration calls have returned so far
NothingEnumerated ==
  [layers_supported |-> {}, inst_extensions_supported |-> {},
   physical_devices |-> << >>, queue_families |-> << >>,
   extensions_supported |-> {}, surface_formats |-> << >>,
   present_modes |-> << >>]

\* the create and destroy calls of the log
Created(object) == [op |-> "create", object |-> object]
Destroyed(object) == [op |-> "destroy", object |-> object]
Allocated(object) == [op |-> "allocate", object |-> object]

(***************************************************************************)
(* The renderer's arena.  nh_arena.h is not part of the source tree, so    *)
(* what an allocation takes besides the bytes asked for is not known; what *)
(* main.c shows is which arrays it allocates and that it hands none back   *)
(* before nh_arena_free.  The arena is modelled by the arrays it holds,    *)
(* each of which has at least one element: the lists the enumerations      *)
(* return are not empty and a swapchain has at least one image.            *)
(***************************************************************************)
\* main.c:1327: nh_arena_create, nothing is allocated
ArenaCreated == 0

\* nh_arena_alloc (main.c:234, 249, 272, 298, 397, 474, 540, 648, 678, 791,
\* 803, 1143): the arena holds one array more
nh_arena_alloc(held) == held + 1

\* main.c:1430: nh_arena_free gives everything back
nh_arena_free(held) == 0

\* main.c:233-252 and 272-275: the arrays of the layer names, of the
\* instance extension names and of the supported layers
InstanceNamesAllocated(held) ==
  nh_arena_alloc(nh_arena_alloc(nh_arena_alloc(held)))

\* the arrays create_renderer has allocated when the queues exist
\* (main.c:233-252, 272-275, 298-301, 397-400, 474-477, 540-543)
SetupArrays ==
  nh_arena_alloc(nh_arena_alloc(nh_arena_alloc(nh_arena_alloc(
    InstanceNamesAllocated(ArenaCreated)))))

\* the arrays allocated for a swapchain: the formats and the present modes
\* (main.c:648-651, 678-681), the images and the views (main.c:791-794,
\* 803-806), the framebuffers (main.c:1142-1146)
ChainArrays(held) ==
  nh_arena_alloc(nh_arena_alloc(nh_arena_alloc(nh_arena_alloc(
    nh_arena_alloc(held)))))

(***************************************************************************)
(* create_renderer up to the queues: the values it resolves.               *)
(***************************************************************************)
\* AllSupported looking up the first requested name only
AllSupportedFirstOnly(used, supported) ==
  \A i \in 1..Len(used) : i = 1 => used[i] \in supported

\* main.c:278-288, 308-321, 555-568: the loops that look every requested
\* name up in the supported ones
AllSupported(used, supported) ==
  \A i \in 1..Len(used) : used[i] \in supported

\* the position of the first device of the type, 0 when there is none
FirstOfType(devices, type) ==
  IF \E i \in 1..Len(devices) : devices[i] = type
    THEN CHOOSE i \in 1..Len(devices) :
           /\ devices[i] = type
           /\ \A j \in 1..(i - 1) : devices[j] # type
    ELSE 0

\* PickPhysicalDevice with the two loops in the other order
PickPhysicalDeviceIntegratedFirst(devices) ==
  IF FirstOfType(devices, "INTEGRATED_GPU") # 0
    THEN FirstOfType(devices, "INTEGRATED_GPU")
  ELSE IF FirstOfType(devices, "DISCRETE_GPU") # 0
    THEN FirstOfType(devices, "DISCRETE_GPU")
  ELSE 1

\* main.c:407-456: the position of the device picked
PickPhysicalDevice(devices) ==
  IF FirstOfType(devices, "DISCRETE_GPU") # 0
    THEN FirstOfType(devices, "DISCRETE_GPU")
  ELSE IF FirstOfType(devices, "INTEGRATED_GPU") # 0
    THEN FirstOfType(devices, "INTEGRATED_GPU")
  ELSE 1

\* renderer.queue_family_indices before the scan: the struct is not
\* initialised, the fields are read only when the scan has written them
NoFamily == 0 - 1
NoQueueFamilyIndices ==
  [graphics_family |-> NoFamily, present_family |-> NoFamily,
   graphics_found |-> FALSE, present_found |-> FALSE,
   graphics_writes |-> 0, present_writes |-> 0,
   indices |-> << NoFamily, NoFamily >>]

\* main.c:484-507: the scan over the families, family i being families[i+1];
\* every family that supports a role is written to the role's index
RECURSIVE ScanQueueFamilies(_, _, _)
ScanQueueFamilies(families, i, acc) ==
  IF i > Len(families) THEN acc
  ELSE
    LET p == IF families[i].present
               THEN [acc EXCEPT !.present_family = i - 1,
                                !.present_found = TRUE,
                                !.present_writes = @ + 1,
                                !.indices[2] = i - 1]
               ELSE acc
        g == IF families[i].graphics
               THEN [p EXCEPT !.graphics_family = i - 1,
                              !.graphics_found = TRUE,
                              !.graphics_writes = @ + 1,
                              !.indices[1] = i - 1]
               ELSE p
    IN ScanQueueFamilies(families, i + 1, g)

\* QueueFamiliesFound without the test of present_found
QueueFamiliesFoundGraphicsOnly(indices) == indices.graphics_found

\* main.c:509-517: both roles were found, else exit(1)
QueueFamiliesFound(indices) ==
  indices.graphics_found /\ indices.present_found

\* main.c:570-599: the queue create infos and extensions of the device
\* create info
DeviceCreateInfo(indices) ==
  [queueCreateInfos |-> << indices.graphics_family, indices.present_family >>,
   enabledExtensions |-> dev_extensions]
NoDeviceCreateInfo ==
  [queueCreateInfos |-> << >>, enabledExtensions |-> << >>]

\* the handle vkGetDeviceQueue returns for queue 0 of a family
DeviceQueue(family) == family + 1

(***************************************************************************)
(* renderer_create_swapchain: the values it resolves.                      *)
(***************************************************************************)
\* the first format, whatever the list has
NegotiateSurfaceFormatFirst(formats) == formats[1]

\* main.c:658-669: the preferred pair when the list has it, else the first
NegotiateSurfaceFormat(formats) ==
  IF \E i \in 1..Len(formats) : formats[i] = PreferredFormat
    THEN PreferredFormat
    ELSE formats[1]

\* found_mode as if the fallback could not run
found_mode_set == TRUE

\* main.c:636: found_mode is initialised to false and assigned nowhere
found_mode == FALSE

\* main.c:688-697: the loop assigns FIFO when the list has it and leaves the
\* field as it was otherwise; then the test of found_mode
NegotiatePresentMode(modes, old) ==
  LET after_loop ==
        IF \E i \in 1..Len(modes) : modes[i] = VK_PRESENT_MODE_FIFO_KHR
          THEN VK_PRESENT_MODE_FIFO_KHR
          ELSE old
  IN IF ~found_mode THEN modes[1] ELSE after_loop

\* ResolveImageCount with a maxImageCount of 0 taken as a limit like any other
ResolveImageCountZeroIsLimit(caps) ==
  IF caps.maxImageCount < caps.minImageCount + 1
    THEN caps.maxImageCount
    ELSE ToU32(caps.minImageCount + 1)

\* main.c:706-714
ResolveImageCount(caps) ==
  IF caps.maxImageCount > 0 /\ caps.maxImageCount < caps.minImageCount
    THEN caps.maxImageCount
    ELSE ToU32(caps.minImageCount + 1)

\* ResolveExtent without the clamp
ResolveExtentUnclamped(caps, size) ==
  IF caps.currentExtent.width = UNDEFINED_EXTENT
    THEN caps.currentExtent
    ELSE Extent(ToU32(size.x), ToU32(size.y))

\* ResolveExtent with the two branches the other way round: the window size
\* when the current extent is undefined, the current extent otherwise
ResolveExtentFromWindow(caps, size) ==
  IF caps.currentExtent.width = UNDEFINED_EXTENT
    THEN Extent(NH_CLAMP(ToU32(size.x), caps.minImageExtent.width,
                         caps.maxImageExtent.width),
                NH_CLAMP(ToU32(size.y), caps.minImageExtent.height,
                         caps.maxImageExtent.height))
    ELSE caps.currentExtent

\* main.c:715-733; the test reads the width alone
ResolveExtent(caps, size) ==
  IF caps.currentExtent.width = UNDEFINED_EXTENT
    THEN caps.currentExtent
    ELSE Extent(NH_CLAMP(ToU32(size.x), caps.minImageExtent.width,
                         caps.maxImageExtent.width),
                NH_CLAMP(ToU32(size.y), caps.minImageExtent.height,
                         caps.maxImageExtent.height))

\* the sharing fields of a create info not filled in yet
NoSharing ==
  [imageSharingMode |-> "none", queueFamilyIndexCount |-> 0,
   pQueueFamilyIndices |-> << >>]

\* the images shared by nobody, whatever the families
SharingAlwaysExclusive(indices) ==
  [imageSharingMode |-> "VK_SHARING_MODE_EXCLUSIVE",
   queueFamilyIndexCount |-> 0, pQueueFamilyIndices |-> << >>]

\* main.c:751-762: exclusive when the two families are the same one, else
\* concurrent across the array of the two indices
Sharing(indices) ==
  IF indices.present_family = indices.graphics_family
    THEN [imageSharingMode |-> "VK_SHARING_MODE_EXCLUSIVE",
          queueFamilyIndexCount |-> 0, pQueueFamilyIndices |-> << >>]
    ELSE [imageSharingMode |-> "VK_SHARING_MODE_CONCURRENT",
          queueFamilyIndexCount |-> 2,
          pQueueFamilyIndices |-> indices.indices]

\* main.c:740-767, the fields of the create info that depend on the snapshot,
\* on the negotiated format and on the queue families
SwapchainCreateInfo(caps, format) ==
  [minImageCount |-> caps.minImageCount,
   imageFormat |-> format.format,
   imageColorSpace |-> format.colorSpace,
   imageExtent |-> caps.currentExtent,
   sharing |-> Sharing(queue_family_indices)]


(***************************************************************************)
(* Handles.  A swapchain handle is a number; the images of a chain are     *)
(* owned by the driver; a view names its image and a framebuffer names its *)
(* attachment, as the create infos of main.c:808-823 and 1149-1158 do.     *)
(***************************************************************************)
Image(chain, i) == [chain |-> chain, index |-> i]
ImageView(image) == [image |-> image]
Framebuffer(view, extent) ==
  [attachment |-> view, width |-> extent.width, height |-> extent.height]

NoExtent == Extent(0, 0)
NoFramebuffer == Framebuffer(ImageView(Image(NoHandle, 0)), NoExtent)

\* Handles with loops that stop one index early
HandlesButLast(seq, count) ==
  { seq[i] : i \in { j \in 1..(count - 1) : j <= Len(seq) } }

\* the handles a sequence holds at the indices the destroy loops visit
Handles(seq, count) ==
  { seq[i] : i \in { j \in 1..count : j <= Len(seq) } }

(***************************************************************************)
(* What a renderer_draw call has done so far: the API calls it made, the   *)
(* rebuilds it ran and what triggered them, and the chain and image count  *)
(* it was entered with.                                                    *)
(***************************************************************************)
NewFrame(chain, count, entry) ==
  [acquires |-> 0, fence_resets |-> 0, cb_resets |-> 0, records |-> 0,
   submits |-> 0, presents |-> 0, rebuilds |-> 0, trigger |-> "none",
   acquire_result |-> "none", present_result |-> "none",
   chain |-> chain, count |-> count, entry |-> entry]

\* what a call of renderer_draw finds on entry, apart from the command
\* buffer, the fence and the semaphores
DrawEntry ==
  [device |-> DeviceContext, pipeline |-> PipelineState,
   extent |-> swapchain_extent, tick |-> window.ticks,
   rest |-> << swapchain_images, swapchain_image_views,
               swapchain_framebuffers, SurfaceInfo, command_pool >>]

\* DeviceIdle with vkDeviceWaitIdle returning at once
DeviceIdleNotAwaited == TRUE

\* vkDeviceWaitIdle returns when the device has no work left
DeviceIdle == queue = << >>

\* SubmitInfo without the wait on the image-available semaphore
SubmitInfoNoWait ==
  [op |-> "draw", wait |-> "none", stage |-> "none",
   signal |-> "render_finished_semaphore", fence |-> "in_flight_fence"]

\* main.c:1500-1514: the submission waits on the image-available semaphore
\* at the colour-attachment-output stage, signals the render-finished
\* semaphore and is guarded by the in-flight fence
SubmitInfo ==
  [op |-> "draw", wait |-> "image_available_semaphore",
   stage |-> "VK_PIPELINE_STAGE_COLOR_ATTACHMENT_OUTPUT_BIT",
   signal |-> "render_finished_semaphore", fence |-> "in_flight_fence"]

\* main.c:1516-1524: the present waits on the render-finished semaphore
PresentInfo ==
  [op |-> "present", wait |-> "render_finished_semaphore", stage |-> "none",
   signal |-> "none", fence |-> "none"]

\* the state of the semaphore of the name
Semaphore(name) ==
  IF name = "image_available_semaphore" THEN image_available_semaphore
                                        ELSE render_finished_semaphore

\* submissions of the command buffer the GPU has not finished
DrawsPending == Len(SelectSeq(queue, LAMBDA op : op.op = "draw"))

\* presents the presentation engine has not started
PresentsPending == Len(SelectSeq(queue, LAMBDA op : op.op = "present"))

(***************************************************************************)
(* The state when create_renderer is entered (main.c:1321-1329): the       *)
(* window is created (main.c:1566-1568, 180-183), the fields of the        *)
(* renderer are not written yet.                                           *)
(***************************************************************************)
InitRenderer ==
  /\ caller = "create_renderer"
  /\ exit_status = -1
  /\ surface_caps = Caps(0, 0, NoExtent, NoExtent, NoExtent)
  /\ swapchain_extent = NoExtent
  /\ swapchain = NoHandle
  /\ swapchain_image_count = 0
  /\ swapchain_images = << >>
  /\ swapchain_image_views = << >>
  /\ swapchain_framebuffers = << >>
  /\ create_info = [minImageCount |-> 0, imageFormat |-> NoFormat.format,
                    imageColorSpace |-> NoFormat.colorSpace,
                    imageExtent |-> NoExtent, sharing |-> NoSharing]
  /\ command_buffer = [state |-> "initial", framebuffer |-> NoFramebuffer,
                       extent |-> NoExtent, viewport |-> NoExtent,
                       scissor |-> NoExtent]
  /\ in_flight_fence = "none"
  /\ image_available_semaphore = "unsignaled"
  /\ render_finished_semaphore = "unsignaled"
  /\ image_index = 0
  /\ queue = << >>
  /\ liveSwapchains = {}
  /\ liveImageViews = {}
  /\ liveFramebuffers = {}
  /\ next_handle = 1
  /\ vk_errors = 0
  /\ called_after_error = FALSE
  /\ frame = NewFrame(NoHandle, 0, << >>)
  /\ prev = "none"
  /\ resize_chain = NoHandle
  /\ surface_format = NoFormat
  /\ present_mode = NoPresentMode
  \* no render pass yet: a render pass is named by its attachment format
  /\ render_pass = [format |-> NoFormat.format]
  /\ vert_shader_module = NoHandle
  /\ frag_shader_module = NoHandle
  /\ pipeline_layout = NoHandle
  /\ graphics_pipeline = NoHandle
  /\ viewport = NoExtent
  /\ scissor = NoExtent
  /\ command_pool = NoHandle

\* create_renderer is entered (main.c:1321-1329): nothing is created
InitDeviceContext ==
  /\ instance = NoHandle
  /\ debug_messenger = NoHandle
  /\ surface = NoHandle
  /\ physical_device = NoHandle
  /\ device = NoHandle
  /\ queue_family_indices = NoQueueFamilyIndices
  /\ graphics_queue = NoHandle
  /\ present_queue = NoHandle
  /\ enumerated = NothingEnumerated
  /\ device_cinfo = NoDeviceCreateInfo
  /\ api_log = << >>

\* main.c:1559-1570: the window is created, create_renderer is called
Init ==
  /\ pc = "create_instance"
  /\ DEBUG \in BOOLEAN
  /\ window = [running |-> TRUE,
               size |-> [x |-> INITIAL_WIDTH, y |-> INITIAL_HEIGHT],
               ticks |-> 0, resized |-> FALSE]
  /\ InitRenderer
  /\ InitDeviceContext
  /\ arena = ArenaCreated


\* an API call is made; it follows a VK_CHECK failure when one was printed
ApiCall == called_after_error' = (called_after_error \/ vk_errors > 0)

(***************************************************************************)
(* create_renderer, from the instance to the queues (main.c:1330-1338).    *)
(***************************************************************************)
\* main.c:217-345: the layers are enumerated and checked, then the instance
\* extensions; exit(1) on the first missing name, vkCreateInstance otherwise
renderer_create_instance(layers_supported, inst_extensions_supported) ==
  /\ pc = "create_instance"
  /\ IF ~AllSupported(layers, layers_supported)
       THEN /\ enumerated' =
                 [enumerated EXCEPT !.layers_supported = layers_supported]
            /\ pc' = "exited"
            /\ exit_status' = 1
            /\ UNCHANGED << instance, api_log >>
       ELSE /\ enumerated' =
                 [enumerated EXCEPT
                    !.layers_supported = layers_supported,
                    !.inst_extensions_supported = inst_extensions_supported]
            /\ IF ~AllSupported(inst_extensions_used,
                                inst_extensions_supported)
                 THEN /\ pc' = "exited"
                      /\ exit_status' = 1
                      /\ UNCHANGED << instance, api_log >>
                 ELSE /\ instance' = Handle
                      /\ api_log' = Append(api_log, Created("instance"))
                      /\ pc' = "create_debug_messenger"
                      /\ UNCHANGED exit_status
  /\ ApiCall
  /\ UNCHANGED << caller, window, DEBUG, debug_messenger, surface,
                  physical_device, device, queue_family_indices,
                  graphics_queue, present_queue, ChainState, FrameState,
                  SurfaceInfo, PipelineState, command_pool, device_cinfo >>
  /\ arena' = IF ~AllSupported(layers, layers_supported)
                 THEN InstanceNamesAllocated(arena)
                 ELSE nh_arena_alloc(InstanceNamesAllocated(arena))

\* main.c:1331-1333 and 347-374: USE_VALIDATION is defined in both
\* configurations (main.c:21, 32), so the #ifdef keeps the call in both
renderer_create_debug_messenger ==
  /\ pc = "create_debug_messenger"
  /\ debug_messenger' = Handle
  /\ api_log' = Append(api_log, Created("debug_messenger"))
  /\ pc' = "create_surface"
  /\ ApiCall
  /\ UNCHANGED << caller, exit_status, window, DEBUG, instance, surface,
                  physical_device, device, queue_family_indices,
                  graphics_queue, present_queue, ChainState, FrameState,
                  SurfaceInfo, PipelineState, command_pool, enumerated,
                  device_cinfo >>
  /\ UNCHANGED arena

\* main.c:376-383
renderer_create_surface ==
  /\ pc = "create_surface"
  /\ surface' = Handle
  /\ api_log' = Append(api_log, Created("surface"))
  /\ pc' = "pick_physical_device"
  /\ ApiCall
  /\ UNCHANGED << caller, exit_status, window, DEBUG, instance,
                  debug_messenger, physical_device, device,
                  queue_family_indices, graphics_queue, present_queue,
                  ChainState, FrameState, SurfaceInfo, PipelineState,
                  command_pool, enumerated, device_cinfo >>
  /\ UNCHANGED arena

\* main.c:385-457
renderer_pick_physical_device(physical_devices) ==
  /\ pc = "pick_physical_device"
  /\ enumerated' = [enumerated EXCEPT !.physical_devices = physical_devices]
  /\ physical_device' = PickPhysicalDevice(physical_devices)
  /\ pc' = "find_queue_families"
  /\ ApiCall
  /\ UNCHANGED << caller, exit_status, window, DEBUG, instance,
                  debug_messenger, surface, device, queue_family_indices,
                  graphics_queue, present_queue, ChainState, FrameState,
                  SurfaceInfo, PipelineState, command_pool, device_cinfo,
                  api_log >>
  /\ arena' = nh_arena_alloc(arena)

\* main.c:459-518: the scan, then exit(1) when a role was not found
renderer_find_queue_families(queue_families) ==
  /\ pc = "find_queue_families"
  /\ enumerated' = [enumerated EXCEPT !.queue_families = queue_families]
  /\ queue_family_indices' =
       ScanQueueFamilies(queue_families, 1, queue_family_indices)
  /\ IF QueueFamiliesFound(queue_family_indices')
       THEN /\ pc' = "create_logical_device"
            /\ UNCHANGED exit_status
       ELSE /\ pc' = "exited"
            /\ exit_status' = 1
  /\ ApiCall
  /\ UNCHANGED << caller, window, DEBUG, instance, debug_messenger, surface,
                  physical_device, device, graphics_queue, present_queue,
                  ChainState, FrameState, SurfaceInfo, PipelineState,
                  command_pool, device_cinfo, api_log >>
  /\ arena' = nh_arena_alloc(arena)

\* main.c:520-609: the device extensions are enumerated and checked, exit(1)
\* on the first missing name, vkCreateDevice otherwise
renderer_create_logical_device(extensions_supported) ==
  /\ pc = "create_logical_device"
  /\ enumerated' =
       [enumerated EXCEPT !.extensions_supported = extensions_supported]
  /\ IF ~AllSupported(dev_extensions, extensions_supported)
       THEN /\ pc' = "exited"
            /\ exit_status' = 1
            /\ UNCHANGED << device, device_cinfo, api_log >>
       ELSE /\ device_cinfo' = DeviceCreateInfo(queue_family_indices)
            /\ device' = Handle
            /\ api_log' = Append(api_log, Created("device"))
            /\ pc' = "create_queues"
            /\ UNCHANGED exit_status
  /\ ApiCall
  /\ UNCHANGED << caller, window, DEBUG, instance, debug_messenger, surface,
                  physical_device, queue_family_indices, graphics_queue,
                  present_queue, ChainState, FrameState, SurfaceInfo,
                  PipelineState, command_pool >>
  /\ arena' = nh_arena_alloc(arena)

\* main.c:611-628
renderer_create_queues ==
  /\ pc = "create_queues"
  /\ graphics_queue' = DeviceQueue(queue_family_indices.graphics_family)
  /\ present_queue' = DeviceQueue(queue_family_indices.present_family)
  /\ pc' = "create_swapchain"
  /\ ApiCall
  /\ UNCHANGED << caller, exit_status, window, DEBUG, instance,
                  debug_messenger, surface, physical_device, device,
                  queue_family_indices, ChainState, FrameState, SurfaceInfo,
                  PipelineState, command_pool, enumerated, device_cinfo,
                  api_log >>
  /\ UNCHANGED arena

(***************************************************************************)
(* create_renderer, from renderer_create_swapchain on (main.c:1339-1346),  *)
(* and the same three functions as the second half of a rebuild            *)
(* (main.c:1478-1482, 1545-1549).                                          *)
(***************************************************************************)
\* RebuildReturn without the "return" of main.c:1482: the acquire path
\* leaves the switch and goes on to reset the fence
RebuildFallsThrough(from) ==
  IF from = "draw_acquire" THEN "draw_reset" ELSE "loop"

\* RebuildReturn retrying the acquire in the same call
RebuildRetries(from) ==
  IF from = "draw_acquire" THEN "draw_acquire" ELSE "loop"

\* main.c:1482 / 1549: the rebuild ends with "return", renderer_draw is over
RebuildReturn(from) == "loop"

\* FramebufferAttachment with the index dropped
FramebufferAttachmentFirst(i) == swapchain_image_views[1]

\* main.c:1155: the attachment of framebuffer i is image view i
FramebufferAttachment(i) == swapchain_image_views[i]

\* main.c:630-776: the formats, the present modes and the capabilities are
\* queried and negotiated, then vkCreateSwapchainKHR
renderer_create_swapchain(surface_formats, present_modes, caps) ==
  /\ pc = "create_swapchain"
  /\ enumerated' = [enumerated EXCEPT !.surface_formats = surface_formats,
                                      !.present_modes = present_modes]
  /\ surface_format' = NegotiateSurfaceFormat(surface_formats)
  /\ present_mode' = NegotiatePresentMode(present_modes, present_mode)
  /\ surface_caps' = caps
  /\ swapchain_image_count' = ResolveImageCount(caps)
  /\ swapchain_extent' = ResolveExtent(caps, window.size)
  /\ create_info' = SwapchainCreateInfo(caps, surface_format')
  /\ swapchain' = next_handle
  /\ liveSwapchains' = liveSwapchains \cup {next_handle}
  /\ next_handle' = next_handle + 1
  /\ api_log' = Append(api_log, Created("swapchain"))
  /\ pc' = "get_swapchain_images"
  /\ ApiCall
  /\ UNCHANGED << DEBUG, DeviceContext, PipelineState, command_pool,
                  device_cinfo >>
  /\ UNCHANGED << caller, exit_status, window, swapchain_images,
                  swapchain_image_views, swapchain_framebuffers,
                  command_buffer, in_flight_fence, image_available_semaphore,
                  render_finished_semaphore, image_index, queue,
                  liveImageViews, liveFramebuffers, vk_errors, frame, prev,
                  resize_chain >>
  /\ arena' = nh_arena_alloc(nh_arena_alloc(arena))

\* a rebuild that goes on as create_renderer does after the image views
AfterSwapchainImagesAsCreate(from) == "create_render_pass"

\* a rebuild that returns without creating the framebuffers again
AfterSwapchainImagesNoFramebuffers(from) ==
  IF from = "create_renderer" THEN "create_render_pass" ELSE "loop"

\* main.c:1340-1343 and 1476-1478: create_renderer goes on to the render
\* pass and the pipeline, a rebuild goes straight to the framebuffers
AfterSwapchainImages(from) ==
  IF from = "create_renderer" THEN "create_render_pass"
                              ELSE "create_framebuffers"

\* main.c:778-831: the count is overwritten by the driver's, then one view
\* per image
renderer_get_swapchain_images ==
  /\ pc = "get_swapchain_images"
  /\ \E n \in ActualImageCounts(surface_caps, create_info.minImageCount) :
       /\ swapchain_image_count' = n
       /\ swapchain_images' = [i \in 1..n |-> Image(swapchain, i)]
       /\ swapchain_image_views' =
            [i \in 1..n |-> ImageView(Image(swapchain, i))]
       /\ liveImageViews' = liveImageViews \cup
            { ImageView(Image(swapchain, i)) : i \in 1..n }
  /\ api_log' = Append(api_log, Created("image_views"))
  /\ pc' = AfterSwapchainImages(caller)
  /\ ApiCall
  /\ UNCHANGED << DEBUG, DeviceContext, SurfaceInfo, PipelineState,
                  command_pool, enumerated, device_cinfo >>
  /\ UNCHANGED << caller, exit_status, window, surface_caps, swapchain_extent,
                  swapchain, swapchain_framebuffers, create_info,
                  command_buffer, in_flight_fence, image_available_semaphore,
                  render_finished_semaphore, image_index, queue,
                  liveSwapchains, liveFramebuffers, next_handle, vk_errors,
                  frame, prev, resize_chain >>
  /\ arena' = nh_arena_alloc(nh_arena_alloc(arena))

\* main.c:880-889 and 929-934: the render pass, named by the format of the
\* colour attachment it was created with
RenderPass(format) == [format |-> format]

\* main.c:868-935
renderer_create_render_pass ==
  /\ pc = "create_render_pass"
  /\ render_pass' = RenderPass(surface_format.format)
  /\ api_log' = Append(api_log, Created("render_pass"))
  /\ pc' = "create_pipeline"
  /\ ApiCall
  /\ UNCHANGED << caller, exit_status, window, DEBUG, DeviceContext,
                  ChainState, FrameState, SurfaceInfo, vert_shader_module,
                  frag_shader_module, pipeline_layout, graphics_pipeline,
                  viewport, scissor, command_pool, enumerated, device_cinfo >>
  /\ UNCHANGED arena

\* main.c:937-1132 and 833-867: the two shader modules, the viewport and
\* the scissor of the swapchain extent, the layout, the pipeline
renderer_create_pipeline ==
  /\ pc = "create_pipeline"
  /\ vert_shader_module' = Handle
  /\ frag_shader_module' = Handle
  /\ viewport' = swapchain_extent
  /\ scissor' = swapchain_extent
  /\ pipeline_layout' = Handle
  /\ graphics_pipeline' = Handle
  /\ api_log' = api_log \o << Created("vert_shader_module"),
                              Created("frag_shader_module"),
                              Created("pipeline_layout"),
                              Created("graphics_pipeline") >>
  /\ pc' = "create_framebuffers"
  /\ ApiCall
  /\ UNCHANGED << caller, exit_status, window, DEBUG, DeviceContext,
                  ChainState, FrameState, SurfaceInfo, render_pass,
                  command_pool, enumerated, device_cinfo >>
  /\ UNCHANGED arena

\* main.c:1134-1166: one framebuffer per image view, of the swapchain extent
renderer_create_framebuffers ==
  /\ pc = "create_framebuffers"
  /\ swapchain_framebuffers' =
       [i \in 1..swapchain_image_count |->
          Framebuffer(FramebufferAttachment(i), swapchain_extent)]
  /\ liveFramebuffers' = liveFramebuffers \cup
       { Framebuffer(FramebufferAttachment(i), swapchain_extent) :
           i \in 1..swapchain_image_count }
  /\ api_log' = Append(api_log, Created("framebuffers"))
  /\ IF caller = "create_renderer"
       THEN /\ pc' = "create_command_pool"
            /\ frame' = frame
       ELSE /\ pc' = RebuildReturn(caller)
            /\ frame' = [frame EXCEPT !.rebuilds = @ + 1]
  /\ ApiCall
  /\ UNCHANGED << DEBUG, DeviceContext, SurfaceInfo, PipelineState,
                  command_pool, enumerated, device_cinfo >>
  /\ UNCHANGED << caller, exit_status, window, surface_caps, swapchain_extent,
                  swapchain, swapchain_image_count, swapchain_images,
                  swapchain_image_views, create_info, command_buffer,
                  in_flight_fence, image_available_semaphore,
                  render_finished_semaphore, image_index, queue,
                  liveSwapchains, liveImageViews, next_handle, vk_errors,
                  prev, resize_chain >>
  /\ arena' = nh_arena_alloc(arena)

\* main.c:1168-1186
renderer_create_command_pool ==
  /\ pc = "create_command_pool"
  /\ command_pool' = Handle
  /\ api_log' = Append(api_log, Created("command_pool"))
  /\ pc' = "allocate_command_buffer"
  /\ ApiCall
  /\ UNCHANGED << caller, exit_status, window, DEBUG, DeviceContext,
                  ChainState, FrameState, SurfaceInfo, PipelineState,
                  enumerated, device_cinfo >>
  /\ UNCHANGED arena

\* main.c:1188-1206: the command buffer is allocated in the initial state
renderer_allocate_command_buffer ==
  /\ pc = "allocate_command_buffer"
  /\ command_buffer' = [state |-> "initial", framebuffer |-> NoFramebuffer,
                        extent |-> NoExtent, viewport |-> NoExtent,
                        scissor |-> NoExtent]
  /\ api_log' = Append(api_log, Allocated("command_buffer"))
  /\ pc' = "create_sync_objects"
  /\ ApiCall
  /\ UNCHANGED << caller, exit_status, window, DEBUG, DeviceContext,
                  ChainState, SurfaceInfo, PipelineState, command_pool,
                  enumerated, device_cinfo, in_flight_fence,
                  image_available_semaphore, render_finished_semaphore,
                  image_index, queue, vk_errors, frame, prev, resize_chain >>
  /\ UNCHANGED arena

\* main.c:1279-1319: two unsignalled semaphores and a fence created
\* signalled; create_renderer returns to main
renderer_create_sync_objects ==
  /\ pc = "create_sync_objects"
  /\ image_available_semaphore' = "unsignaled"
  /\ render_finished_semaphore' = "unsignaled"
  /\ in_flight_fence' = "signaled"
  /\ api_log' = api_log \o << Created("image_available_semaphore"),
                              Created("render_finished_semaphore"),
                              Created("in_flight_fence") >>
  /\ pc' = "loop"
  /\ ApiCall
  /\ UNCHANGED << DEBUG, DeviceContext, SurfaceInfo, PipelineState,
                  command_pool, enumerated, device_cinfo >>
  /\ UNCHANGED << caller, exit_status, window, surface_caps, swapchain_extent,
                  swapchain, swapchain_image_count, swapchain_images,
                  swapchain_image_views, swapchain_framebuffers, create_info,
                  command_buffer, image_index, queue, liveSwapchains,
                  liveImageViews, liveFramebuffers, next_handle, vk_errors,
                  frame, prev, resize_chain >>
  /\ UNCHANGED arena


(***************************************************************************)
(* main(): the loop, and the window's event pump.                          *)
(***************************************************************************)
\* a loop that does not read window.running
LoopConditionAlways == TRUE

\* a loop whose body is never entered
LoopConditionNever == FALSE

\* main.c:1573: while (window.running)
LoopCondition == window.running

\* main.c:1573, 1582 and 186-202: while (window.running) update_window.
\* The events polled are a quit request or none, and a resize or none.
update_window ==
  /\ pc = "loop"
  /\ LoopCondition
  /\ window.ticks < MaxTicks
  /\ \E quit \in BOOLEAN, resize \in BOOLEAN, size \in ResizeSizes :
       /\ window' = [running |-> window.running /\ ~quit,
                     size |-> IF resize THEN size ELSE window.size,
                     ticks |-> window.ticks + 1,
                     resized |-> resize]
       /\ resize_chain' = IF resize THEN swapchain ELSE resize_chain
  /\ pc' = "draw_wait"
  /\ UNCHANGED << DEBUG, DeviceContext, SurfaceInfo, PipelineState,
                  command_pool, enumerated, device_cinfo, api_log >>
  /\ UNCHANGED << caller, exit_status, surface_caps, swapchain_extent,
                  swapchain, swapchain_image_count, swapchain_images,
                  swapchain_image_views, swapchain_framebuffers, create_info,
                  command_buffer, in_flight_fence, image_available_semaphore,
                  render_finished_semaphore, image_index, queue,
                  liveSwapchains, liveImageViews, liveFramebuffers,
                  next_handle, vk_errors, called_after_error, frame, prev >>
  /\ UNCHANGED arena

\* main.c:1573, 1594: the loop ends when running is false
main_loop_exit ==
  /\ pc = "loop"
  /\ ~LoopCondition
  /\ pc' = "destroy"
  /\ UNCHANGED << DEBUG, DeviceContext, SurfaceInfo, PipelineState,
                  command_pool, enumerated, device_cinfo, api_log >>
  /\ UNCHANGED << caller, exit_status, window, surface_caps, swapchain_extent,
                  swapchain, swapchain_image_count, swapchain_images,
                  swapchain_image_views, swapchain_framebuffers, create_info,
                  command_buffer, in_flight_fence, image_available_semaphore,
                  render_finished_semaphore, image_index, queue,
                  liveSwapchains, liveImageViews, liveFramebuffers,
                  next_handle, vk_errors, called_after_error, frame, prev,
                  resize_chain >>
  /\ UNCHANGED arena

(***************************************************************************)
(* renderer_draw (main.c:1433-1556), one action per API call it makes.     *)
(***************************************************************************)
\* FenceWaitReturns with the wait left out
FenceWaitSkipped == TRUE

\* main.c:1442-1448: vkWaitForFences with no timeout returns when the fence
\* is signalled
FenceWaitReturns == in_flight_fence = "signaled"

\* ResultBranch with VK_SUBOPTIMAL_KHR, a success code, taken as success
ResultBranchSuboptimalContinues(r) ==
  IF r \in {VK_SUCCESS, VK_SUBOPTIMAL_KHR} THEN "continue"
  ELSE IF r = VK_ERROR_OUT_OF_DATE_KHR THEN "rebuild"
  ELSE "exit"

\* the switch statements of main.c:1451-1488 and 1525-1555
ResultBranch(r) ==
  IF r = VK_SUCCESS THEN "continue"
  ELSE IF r \in StaleResults THEN "rebuild"
  ELSE "exit"

\* draw_wait with vkResetFences moved up to follow the wait directly
draw_wait_resets_fence ==
  /\ pc = "draw_wait"
  /\ FenceWaitReturns
  /\ in_flight_fence' = "unsignaled"
  /\ prev' = frame.trigger
  /\ frame' = NewFrame(swapchain, swapchain_image_count, DrawEntry)
  /\ pc' = "draw_acquire"
  /\ ApiCall
  /\ UNCHANGED << DEBUG, DeviceContext, SurfaceInfo, PipelineState,
                  command_pool, enumerated, device_cinfo, api_log >>
  /\ UNCHANGED << caller, exit_status, window, surface_caps, swapchain_extent,
                  swapchain, swapchain_image_count, swapchain_images,
                  swapchain_image_views, swapchain_framebuffers, create_info,
                  command_buffer, image_available_semaphore,
                  render_finished_semaphore, image_index, queue,
                  liveSwapchains, liveImageViews, liveFramebuffers,
                  next_handle, vk_errors, resize_chain >>
  /\ UNCHANGED arena

\* main.c:1433-1448: renderer_draw is entered and waits for the fence
draw_wait ==
  /\ pc = "draw_wait"
  /\ FenceWaitReturns
  /\ prev' = frame.trigger
  /\ frame' = NewFrame(swapchain, swapchain_image_count, DrawEntry)
  /\ pc' = "draw_acquire"
  /\ ApiCall
  /\ UNCHANGED << DEBUG, DeviceContext, SurfaceInfo, PipelineState,
                  command_pool, enumerated, device_cinfo, api_log >>
  /\ UNCHANGED << caller, exit_status, window, surface_caps, swapchain_extent,
                  swapchain, swapchain_image_count, swapchain_images,
                  swapchain_image_views, swapchain_framebuffers, create_info,
                  command_buffer, in_flight_fence, image_available_semaphore,
                  render_finished_semaphore, image_index, queue,
                  liveSwapchains, liveImageViews, liveFramebuffers,
                  next_handle, vk_errors, resize_chain >>
  /\ UNCHANGED arena

\* main.c:1450-1488: vkAcquireNextImageKHR and the switch on its result.
\* Success and suboptimal hand out an image; the semaphore is signalled
\* when the presentation engine is done with the image.
draw_acquire ==
  /\ pc = "draw_acquire"
  /\ \E r \in AcquireResults :
       /\ frame' = [frame EXCEPT !.acquires = @ + 1, !.acquire_result = r,
                      !.trigger = IF ResultBranch(r) = "rebuild"
                                    THEN "acquire" ELSE @]
       /\ IF r \in {VK_SUCCESS, VK_SUBOPTIMAL_KHR}
            THEN /\ image_index' \in 0..(Len(swapchain_images) - 1)
                 /\ image_available_semaphore' =
                      IF image_available_semaphore = "signaled"
                        THEN "signaled" ELSE "pending"
            ELSE UNCHANGED << image_index, image_available_semaphore >>
       /\ CASE ResultBranch(r) = "continue" ->
                 /\ pc' = "draw_reset"
                 /\ UNCHANGED << caller, exit_status >>
            [] ResultBranch(r) = "rebuild" ->
                 /\ pc' = "rebuild_wait_idle"
                 /\ caller' = "draw_acquire"
                 /\ UNCHANGED exit_status
            [] OTHER ->
                 /\ pc' = "exited"
                 /\ exit_status' = 1
                 /\ UNCHANGED caller
  /\ ApiCall
  /\ UNCHANGED << DEBUG, DeviceContext, SurfaceInfo, PipelineState,
                  command_pool, enumerated, device_cinfo, api_log >>
  /\ UNCHANGED << window, surface_caps, swapchain_extent, swapchain,
                  swapchain_image_count, swapchain_images,
                  swapchain_image_views, swapchain_framebuffers, create_info,
                  command_buffer, in_flight_fence, render_finished_semaphore,
                  queue, liveSwapchains, liveImageViews, liveFramebuffers,
                  next_handle, vk_errors, prev, resize_chain >>
  /\ UNCHANGED arena

\* main.c:1489-1497: vkResetFences and vkResetCommandBuffer
draw_reset ==
  /\ pc = "draw_reset"
  /\ in_flight_fence' = "unsignaled"
  /\ command_buffer' = [command_buffer EXCEPT !.state = "initial"]
  /\ frame' = [frame EXCEPT !.fence_resets = @ + 1, !.cb_resets = @ + 1]
  /\ pc' = "draw_record"
  /\ ApiCall
  /\ UNCHANGED << DEBUG, DeviceContext, SurfaceInfo, PipelineState,
                  command_pool, enumerated, device_cinfo, api_log >>
  /\ UNCHANGED << caller, exit_status, window, surface_caps, swapchain_extent,
                  swapchain, swapchain_image_count, swapchain_images,
                  swapchain_image_views, swapchain_framebuffers, create_info,
                  image_available_semaphore, render_finished_semaphore,
                  image_index, queue, liveSwapchains, liveImageViews,
                  liveFramebuffers, next_handle, vk_errors, prev,
                  resize_chain >>
  /\ UNCHANGED arena

\* the viewport and the scissor of the last recording are kept
RecordedExtentStale == viewport

\* main.c:1251-1264: the viewport and the scissor are rewritten from the
\* swapchain extent each time the command buffer is recorded
RecordedExtent == swapchain_extent

\* the render area of the recording before is kept
RenderAreaOfLastRecording == command_buffer.extent

\* main.c:1233-1236: the render area of the render pass is the swapchain
\* extent
RenderArea == swapchain_extent

\* main.c:1498 and 1208-1277: renderer_record_command_buffer(image_index);
\* extent is the render area of vkCmdBeginRenderPass, viewport and scissor
\* are what vkCmdSetViewport and vkCmdSetScissor are handed
draw_record ==
  /\ pc = "draw_record"
  /\ command_buffer' =
       [state |-> "executable",
        framebuffer |-> IF image_index + 1 \in DOMAIN swapchain_framebuffers
                          THEN swapchain_framebuffers[image_index + 1]
                          ELSE NoFramebuffer,
        extent |-> RenderArea,
        viewport |-> RecordedExtent,
        scissor |-> RecordedExtent]
  /\ viewport' = RecordedExtent
  /\ scissor' = RecordedExtent
  /\ frame' = [frame EXCEPT !.records = @ + 1]
  /\ pc' = "draw_submit"
  /\ ApiCall
  /\ UNCHANGED << DEBUG, DeviceContext, SurfaceInfo, render_pass,
                  vert_shader_module, frag_shader_module, pipeline_layout,
                  graphics_pipeline, command_pool, enumerated, device_cinfo,
                  api_log >>
  /\ UNCHANGED << caller, exit_status, window, surface_caps, swapchain_extent,
                  swapchain, swapchain_image_count, swapchain_images,
                  swapchain_image_views, swapchain_framebuffers, create_info,
                  in_flight_fence, image_available_semaphore,
                  render_finished_semaphore, image_index, queue,
                  liveSwapchains, liveImageViews, liveFramebuffers,
                  next_handle, vk_errors, prev, resize_chain >>
  /\ UNCHANGED arena

\* main.c:1500-1514 and 46: VK_CHECK(vkQueueSubmit(...)).  A result other
\* than success is printed and renderer_draw goes on.
draw_submit ==
  /\ pc = "draw_submit"
  /\ \E r \in SubmitResults :
       IF r = VK_SUCCESS
         THEN /\ queue' = Append(queue, SubmitInfo)
              /\ UNCHANGED vk_errors
         ELSE /\ vk_errors' = vk_errors + 1
              /\ UNCHANGED queue
  /\ frame' = [frame EXCEPT !.submits = @ + 1]
  /\ pc' = "draw_present"
  /\ ApiCall
  /\ UNCHANGED << DEBUG, DeviceContext, SurfaceInfo, PipelineState,
                  command_pool, enumerated, device_cinfo, api_log >>
  /\ UNCHANGED << caller, exit_status, window, surface_caps, swapchain_extent,
                  swapchain, swapchain_image_count, swapchain_images,
                  swapchain_image_views, swapchain_framebuffers, create_info,
                  command_buffer, in_flight_fence, image_available_semaphore,
                  render_finished_semaphore, image_index, liveSwapchains,
                  liveImageViews, liveFramebuffers, next_handle, prev,
                  resize_chain >>
  /\ UNCHANGED arena

\* main.c:1516-1555: vkQueuePresentKHR and the switch on its result.  The
\* wait on the render-finished semaphore is queued unless the call fails
\* outright.
draw_present ==
  /\ pc = "draw_present"
  /\ \E r \in PresentResults :
       /\ frame' = [frame EXCEPT !.presents = @ + 1, !.present_result = r,
                      !.trigger = IF ResultBranch(r) = "rebuild"
                                    THEN "present" ELSE @]
       /\ CASE ResultBranch(r) = "continue" ->
                 /\ pc' = "loop"
                 /\ queue' = Append(queue, PresentInfo)
                 /\ UNCHANGED << caller, exit_status >>
            [] ResultBranch(r) = "rebuild" ->
                 /\ pc' = "rebuild_wait_idle"
                 /\ caller' = "draw_present"
                 /\ queue' = Append(queue, PresentInfo)
                 /\ UNCHANGED exit_status
            [] OTHER ->
                 /\ pc' = "exited"
                 /\ exit_status' = 1
                 /\ UNCHANGED << caller, queue >>
  /\ ApiCall
  /\ UNCHANGED << DEBUG, DeviceContext, SurfaceInfo, PipelineState,
                  command_pool, enumerated, device_cinfo, api_log >>
  /\ UNCHANGED << window, surface_caps, swapchain_extent, swapchain,
                  swapchain_image_count, swapchain_images,
                  swapchain_image_views, swapchain_framebuffers, create_info,
                  command_buffer, in_flight_fence, image_available_semaphore,
                  render_finished_semaphore, image_index, liveSwapchains,
                  liveImageViews, liveFramebuffers, next_handle, vk_errors,
                  prev, resize_chain >>
  /\ UNCHANGED arena


(***************************************************************************)
(* The first half of a rebuild, the same statements on the acquire path    *)
(* (main.c:1469-1477) and on the present path (main.c:1536-1544); the      *)
(* second half is the three creation functions above.                      *)
(***************************************************************************)
\* main.c:1470 / 1537: vkDeviceWaitIdle
rebuild_wait_idle ==
  /\ pc = "rebuild_wait_idle"
  /\ DeviceIdle
  /\ pc' = "rebuild_destroy_framebuffers"
  /\ ApiCall
  /\ UNCHANGED << DEBUG, DeviceContext, SurfaceInfo, PipelineState,
                  command_pool, enumerated, device_cinfo, api_log >>
  /\ UNCHANGED << caller, exit_status, window, surface_caps, swapchain_extent,
                  swapchain, swapchain_image_count, swapchain_images,
                  swapchain_image_views, swapchain_framebuffers, create_info,
                  command_buffer, in_flight_fence, image_available_semaphore,
                  render_finished_semaphore, image_index, queue,
                  liveSwapchains, liveImageViews, liveFramebuffers,
                  next_handle, vk_errors, frame, prev, resize_chain >>
  /\ UNCHANGED arena

\* main.c:1471-1473 / 1538-1540
rebuild_destroy_framebuffers ==
  /\ pc = "rebuild_destroy_framebuffers"
  /\ liveFramebuffers' = liveFramebuffers \
       Handles(swapchain_framebuffers, swapchain_image_count)
  /\ api_log' = Append(api_log, Destroyed("framebuffers"))
  /\ pc' = "rebuild_destroy_image_views"
  /\ ApiCall
  /\ UNCHANGED << DEBUG, DeviceContext, SurfaceInfo, PipelineState,
                  command_pool, enumerated, device_cinfo >>
  /\ UNCHANGED << caller, exit_status, window, surface_caps, swapchain_extent,
                  swapchain, swapchain_image_count, swapchain_images,
                  swapchain_image_views, swapchain_framebuffers, create_info,
                  command_buffer, in_flight_fence, image_available_semaphore,
                  render_finished_semaphore, image_index, queue,
                  liveSwapchains, liveImageViews, next_handle, vk_errors,
                  frame, prev, resize_chain >>
  /\ UNCHANGED arena

\* main.c:1474-1476 / 1541-1543
rebuild_destroy_image_views ==
  /\ pc = "rebuild_destroy_image_views"
  /\ liveImageViews' = liveImageViews \
       Handles(swapchain_image_views, swapchain_image_count)
  /\ api_log' = Append(api_log, Destroyed("image_views"))
  /\ pc' = "rebuild_destroy_swapchain"
  /\ ApiCall
  /\ UNCHANGED << DEBUG, DeviceContext, SurfaceInfo, PipelineState,
                  command_pool, enumerated, device_cinfo >>
  /\ UNCHANGED << caller, exit_status, window, surface_caps, swapchain_extent,
                  swapchain, swapchain_image_count, swapchain_images,
                  swapchain_image_views, swapchain_framebuffers, create_info,
                  command_buffer, in_flight_fence, image_available_semaphore,
                  render_finished_semaphore, image_index, queue,
                  liveSwapchains, liveFramebuffers, next_handle, vk_errors,
                  frame, prev, resize_chain >>
  /\ UNCHANGED arena

\* main.c:1477 / 1544; renderer_create_swapchain is called next
rebuild_destroy_swapchain ==
  /\ pc = "rebuild_destroy_swapchain"
  /\ liveSwapchains' = liveSwapchains \ {swapchain}
  /\ api_log' = Append(api_log, Destroyed("swapchain"))
  /\ pc' = "create_swapchain"
  /\ ApiCall
  /\ UNCHANGED << DEBUG, DeviceContext, SurfaceInfo, PipelineState,
                  command_pool, enumerated, device_cinfo >>
  /\ UNCHANGED << caller, exit_status, window, surface_caps, swapchain_extent,
                  swapchain, swapchain_image_count, swapchain_images,
                  swapchain_image_views, swapchain_framebuffers, create_info,
                  command_buffer, in_flight_fence, image_available_semaphore,
                  render_finished_semaphore, image_index, queue,
                  liveImageViews, liveFramebuffers, next_handle, vk_errors,
                  frame, prev, resize_chain >>
  /\ UNCHANGED arena

(***************************************************************************)
(* The device and the presentation engine.  A piece of work the device has *)
(* accepted starts when the semaphore it waits on is signalled, the        *)
(* submissions in the order they were made and the presents in the order   *)
(* they were made; it unsignals the semaphore it waited on and signals the *)
(* semaphore and the fence it was given.  The presentation engine signals  *)
(* the semaphore of an acquire when the image can be written.              *)
(***************************************************************************)
GpuExecute ==
  /\ pc \notin {"done", "exited"}
  /\ \E i \in 1..Len(queue) :
       LET work == queue[i] IN
       /\ \A j \in 1..(i - 1) : queue[j].op # work.op
       /\ work.wait # "none" => Semaphore(work.wait) = "signaled"
       /\ queue' = [j \in 1..(Len(queue) - 1) |->
                      IF j < i THEN queue[j] ELSE queue[j + 1]]
       /\ image_available_semaphore' =
            IF work.wait = "image_available_semaphore"
              THEN "unsignaled" ELSE image_available_semaphore
       /\ render_finished_semaphore' =
            IF work.signal = "render_finished_semaphore" THEN "signaled"
            ELSE IF work.wait = "render_finished_semaphore"
              THEN "unsignaled"
            ELSE render_finished_semaphore
       /\ in_flight_fence' =
            IF work.fence = "in_flight_fence" THEN "signaled"
                                              ELSE in_flight_fence
  /\ UNCHANGED << DEBUG, DeviceContext, SurfaceInfo, PipelineState,
                  command_pool, enumerated, device_cinfo, api_log >>
  /\ UNCHANGED << pc, caller, exit_status, window, surface_caps,
                  swapchain_extent, swapchain, swapchain_image_count,
                  swapchain_images, swapchain_image_views,
                  swapchain_framebuffers, create_info, command_buffer,
                  image_index, liveSwapchains, liveImageViews,
                  liveFramebuffers, next_handle, vk_errors,
                  called_after_error, frame, prev, resize_chain >>
  /\ UNCHANGED arena

\* the image handed out by vkAcquireNextImageKHR (main.c:1451-1458) can be
\* written: the pending signal of the semaphore happens
ImageAvailable ==
  /\ pc \notin {"done", "exited"}
  /\ image_available_semaphore = "pending"
  /\ image_available_semaphore' = "signaled"
  /\ UNCHANGED << pc, caller, exit_status, window, DEBUG, DeviceContext,
                  ChainState, SurfaceInfo, PipelineState, command_pool,
                  enumerated, device_cinfo, api_log, command_buffer,
                  in_flight_fence, render_finished_semaphore, image_index,
                  queue, vk_errors, called_after_error, frame, prev,
                  resize_chain >>
  /\ UNCHANGED arena

(***************************************************************************)
(* Teardown (main.c:1594-1598).                                            *)
(***************************************************************************)
\* what the create call of an object is handed: the objects it is created
\* from (main.c:368-373, 378-382, 603-608, 740-774, 808-829, 856-861,
\* 929-934, 1097-1102, 1104-1131, 1149-1164, 1180-1185, 1291-1318)
DependsOn(object) ==
  CASE object = "instance" -> {}
    [] object \in {"debug_messenger", "surface", "device"} -> {"instance"}
    [] object = "swapchain" -> {"device", "surface"}
    [] object = "image_views" -> {"device", "swapchain"}
    [] object = "graphics_pipeline" ->
         {"device", "vert_shader_module", "frag_shader_module",
          "pipeline_layout", "render_pass"}
    [] object = "framebuffers" -> {"device", "render_pass", "image_views"}
    [] OTHER -> {"device"}

\* DestroyOrder with the image views destroyed before the framebuffers
DestroyOrderViewsFirst ==
  << "image_available_semaphore", "render_finished_semaphore",
     "in_flight_fence", "command_pool", "image_views", "framebuffers",
     "graphics_pipeline", "pipeline_layout", "render_pass",
     "frag_shader_module", "vert_shader_module", "swapchain", "device",
     "surface", "debug_messenger", "instance" >>

\* main.c:1361-1427: the objects in the order renderer_destroy destroys them;
\* USE_VALIDATION is defined in both configurations, so the #ifdef of
\* main.c:1416 keeps the messenger's destruction in both
DestroyOrder ==
  << "image_available_semaphore", "render_finished_semaphore",
     "in_flight_fence", "command_pool", "framebuffers", "graphics_pipeline",
     "pipeline_layout", "render_pass", "frag_shader_module",
     "vert_shader_module", "image_views", "swapchain", "device", "surface",
     "debug_messenger", "instance" >>

\* main.c:1351-1431: wait for the device, then destroy everything
renderer_destroy ==
  /\ pc = "destroy"
  /\ DeviceIdle
  /\ api_log' = api_log \o
       [i \in 1..Len(DestroyOrder) |-> Destroyed(DestroyOrder[i])]
  /\ liveFramebuffers' = liveFramebuffers \
       Handles(swapchain_framebuffers, swapchain_image_count)
  /\ liveImageViews' = liveImageViews \
       Handles(swapchain_image_views, swapchain_image_count)
  /\ liveSwapchains' = liveSwapchains \ {swapchain}
  /\ in_flight_fence' = "destroyed"
  /\ pc' = "destroy_window"
  /\ ApiCall
  /\ UNCHANGED << DEBUG, DeviceContext, SurfaceInfo, PipelineState,
                  command_pool, enumerated, device_cinfo >>
  /\ UNCHANGED << caller, exit_status, window, surface_caps, swapchain_extent,
                  swapchain, swapchain_image_count, swapchain_images,
                  swapchain_image_views, swapchain_framebuffers, create_info,
                  command_buffer, image_available_semaphore,
                  render_finished_semaphore, image_index, queue, next_handle,
                  vk_errors, frame, prev, resize_chain >>
  /\ arena' = nh_arena_free(arena)

\* main.c:1596-1598 and 210-213: destroy_window, return 0
destroy_window ==
  /\ pc = "destroy_window"
  /\ pc' = "done"
  /\ exit_status' = 0
  /\ UNCHANGED << DEBUG, DeviceContext, SurfaceInfo, PipelineState,
                  command_pool, enumerated, device_cinfo, api_log >>
  /\ UNCHANGED << caller, window, surface_caps, swapchain_extent, swapchain,
                  swapchain_image_count, swapchain_images,
                  swapchain_image_views, swapchain_framebuffers, create_info,
                  command_buffer, in_flight_fence, image_available_semaphore,
                  render_finished_semaphore, image_index, queue,
                  liveSwapchains, liveImageViews, liveFramebuffers,
                  next_handle, vk_errors, called_after_error, frame, prev,
                  resize_chain >>
  /\ UNCHANGED arena

(***************************************************************************)
(* The program: main() from renderer_create_swapchain on, with the device  *)
(* running beside it.                                                      *)
(***************************************************************************)
Next ==
  \/ \E l \in FrameLayerSets, e \in FrameInstExtensionSets :
       renderer_create_instance(l, e)
  \/ renderer_create_debug_messenger
  \/ renderer_create_surface
  \/ \E d \in FrameDeviceLists : renderer_pick_physical_device(d)
  \/ \E f \in FrameFamilyLists : renderer_find_queue_families(f)
  \/ \E e \in FrameDevExtensionSets : renderer_create_logical_device(e)
  \/ renderer_create_queues
  \/ \E f \in FrameFormatLists, m \in FramePresentModeLists,
        caps \in FrameCaps : renderer_create_swapchain(f, m, caps)
  \/ renderer_get_swapchain_images
  \/ renderer_create_render_pass
  \/ renderer_create_pipeline
  \/ renderer_create_framebuffers
  \/ renderer_create_command_pool
  \/ renderer_allocate_command_buffer
  \/ renderer_create_sync_objects
  \/ update_window
  \/ main_loop_exit
  \/ draw_wait
  \/ draw_acquire
  \/ draw_reset
  \/ draw_record
  \/ draw_submit
  \/ draw_present
  \/ rebuild_wait_idle
  \/ rebuild_destroy_framebuffers
  \/ rebuild_destroy_image_views
  \/ rebuild_destroy_swapchain
  \/ GpuExecute
  \/ ImageAvailable
  \/ renderer_destroy
  \/ destroy_window

\* the program built with DEBUG defined (main.c:20-31); both builds take the
\* same steps once the instance exists, and SpecCreate covers both
InitDebug == Init /\ DEBUG

Spec == InitDebug /\ [][Next]_vars

\* the process and the device keep running: while a step of the program or
\* of the device is possible, one is taken
SpecLive == InitDebug /\ [][Next]_vars /\ WF_vars(Next)

(***************************************************************************)
(* The program on a surface whose list of formats changes between the      *)
(* queries of renderer_create_swapchain: the preferred pair is enumerated  *)
(* at one query and not at another.  The image count and the extent of the *)
(* surface stay as they are.                                               *)
(***************************************************************************)
\* the lists the surface enumerates: with and without the preferred pair
ChangingFormatLists ==
  FrameFormatLists \cup
  { << SurfaceFormat("VK_FORMAT_R8G8B8A8_UNORM",
                     "VK_COLORSPACE_SRGB_NONLINEAR_KHR") >> }

\* the capability snapshot of the surface
SteadyCaps ==
  { Caps(2, 2, Extent(1, 1), Extent(1, 1), Extent(MaxDim, MaxDim)) }

NextFormats ==
  \/ \E l \in FrameLayerSets, e \in FrameInstExtensionSets :
       renderer_create_instance(l, e)
  \/ renderer_create_debug_messenger
  \/ renderer_create_surface
  \/ \E d \in FrameDeviceLists : renderer_pick_physical_device(d)
  \/ \E f \in FrameFamilyLists : renderer_find_queue_families(f)
  \/ \E e \in FrameDevExtensionSets : renderer_create_logical_device(e)
  \/ renderer_create_queues
  \/ \E f \in ChangingFormatLists, m \in FramePresentModeLists,
        caps \in SteadyCaps : renderer_create_swapchain(f, m, caps)
  \/ renderer_get_swapchain_images
  \/ renderer_create_render_pass
  \/ renderer_create_pipeline
  \/ renderer_create_framebuffers
  \/ renderer_create_command_pool
  \/ renderer_allocate_command_buffer
  \/ renderer_create_sync_objects
  \/ update_window
  \/ main_loop_exit
  \/ draw_wait
  \/ draw_acquire
  \/ draw_reset
  \/ draw_record
  \/ draw_submit
  \/ draw_present
  \/ rebuild_wait_idle
  \/ rebuild_destroy_framebuffers
  \/ rebuild_destroy_image_views
  \/ rebuild_destroy_swapchain
  \/ GpuExecute
  \/ ImageAvailable
  \/ renderer_destroy
  \/ destroy_window

SpecFormats == InitDebug /\ [][NextFormats]_vars

(***************************************************************************)
(* create_renderer from the instance to the queues, on every answer of the *)
(* bounded families: the specification the claims about the device context *)
(* are checked under.                                                      *)
(***************************************************************************)
NextCreate ==
  \/ \E l \in AllLayerSets, e \in AllInstExtensionSets :
       renderer_create_instance(l, e)
  \/ renderer_create_debug_messenger
  \/ renderer_create_surface
  \/ \E d \in AllDeviceLists : renderer_pick_physical_device(d)
  \/ \E f \in AllFamilyLists : renderer_find_queue_families(f)
  \/ \E e \in AllDevExtensionSets : renderer_create_logical_device(e)
  \/ renderer_create_queues

SpecCreate == Init /\ [][NextCreate]_vars

(***************************************************************************)
(* renderer_create_swapchain alone, entered with every window size and run *)
(* on every answer of the bounded family: the specification the claims     *)
(* about the values it resolves are checked under.                         *)
(***************************************************************************)
\* the device context once renderer_create_queues has returned, on the
\* answers the frame loop is explored with
DeviceContextBuilt ==
  /\ instance = Handle
  /\ debug_messenger = Handle
  /\ surface = Handle
  /\ \E d \in FrameDeviceLists :
       /\ physical_device = PickPhysicalDevice(d)
       /\ \E f \in BuiltFamilyLists, l \in FrameLayerSets,
             i \in FrameInstExtensionSets, e \in FrameDevExtensionSets :
            /\ queue_family_indices =
                 ScanQueueFamilies(f, 1, NoQueueFamilyIndices)
            /\ enumerated = [NothingEnumerated EXCEPT
                               !.layers_supported = l,
                               !.inst_extensions_supported = i,
                               !.physical_devices = d,
                               !.queue_families = f,
                               !.extensions_supported = e]
  /\ device = Handle
  /\ device_cinfo = DeviceCreateInfo(queue_family_indices)
  /\ graphics_queue = DeviceQueue(queue_family_indices.graphics_family)
  /\ present_queue = DeviceQueue(queue_family_indices.present_family)
  /\ api_log = << Created("instance"), Created("debug_messenger"),
                  Created("surface"), Created("device") >>

InitSwapchain ==
  /\ pc = "create_swapchain"
  /\ DEBUG = FALSE
  /\ \E size \in AllWindowSizes :
       window = [running |-> TRUE, size |-> size, ticks |-> 0,
                 resized |-> FALSE]
  /\ InitRenderer
  /\ DeviceContextBuilt
  /\ arena = SetupArrays

\* the answers renderer_create_swapchain is run on: every capability
\* snapshot, every list of formats and every list of present modes of the
\* bounded families, each with one answer to the other two queries
SwapchainAnswers ==
  { << f, m, caps >> : f \in FrameFormatLists, m \in FramePresentModeLists,
                       caps \in AllCaps } \cup
  { << f, m, caps >> : f \in AllFormatLists, m \in FramePresentModeLists,
                       caps \in FrameCaps } \cup
  { << f, m, caps >> : f \in FrameFormatLists, m \in AllPresentModeLists,
                       caps \in FrameCaps }

NextSwapchain ==
  \E a \in SwapchainAnswers : renderer_create_swapchain(a[1], a[2], a[3])

SpecSwapchain == InitSwapchain /\ [][NextSwapchain]_vars


(***************************************************************************)
(* Positions of the control thread.                                        *)
(***************************************************************************)
\* inside renderer_draw, past the fence wait and outside a rebuild
DrawPcs == {"draw_acquire", "draw_reset", "draw_record", "draw_submit",
            "draw_present"}

\* a rebuild is in progress
RebuildPcs == {"rebuild_wait_idle", "rebuild_destroy_framebuffers",
               "rebuild_destroy_image_views", "rebuild_destroy_swapchain",
               "create_swapchain", "get_swapchain_images",
               "create_framebuffers"}

\* renderer_draw has returned to main and has not been entered again
ReturnedPcs == {"loop", "draw_wait", "destroy", "destroy_window", "done"}

\* create_renderer has returned, no rebuild is in progress and teardown has
\* not begun
StableChain == pc \in {"loop", "draw_wait"} \cup DrawPcs

(***************************************************************************)
(* C1.  When renderer_draw resets the in-flight fence and the command      *)
(* buffer, the fence is signalled and no earlier submission is still       *)
(* executing on the GPU; so at most one submission guarded by the fence is *)
(* outstanding at any time, over any sequence of draws and rebuilds.       *)
(***************************************************************************)
C1_FenceSignalledAtReset ==
  /\ pc = "draw_reset" => (in_flight_fence = "signaled" /\ DrawsPending = 0)
  /\ DrawsPending <= 1

\* a second frame is about to reset the fence, after a frame that was
\* recorded and whose present triggered a rebuild
C1_Witness ==
  /\ pc = "draw_reset"
  /\ command_buffer.state = "executable"
  /\ prev = "present"

(***************************************************************************)
(* C2.  When vkAcquireNextImageKHR returns out-of-date or suboptimal,      *)
(* renderer_draw runs the rebuild and returns: the call has reset neither  *)
(* the fence nor the command buffer, has recorded, submitted and presented *)
(* nothing, and has called acquire once.                                   *)
(***************************************************************************)
C2_AcquireStaleReturnsEarly ==
  frame.trigger = "acquire" =>
    /\ frame.acquires = 1
    /\ frame.fence_resets = 0
    /\ frame.cb_resets = 0
    /\ frame.records = 0
    /\ frame.submits = 0
    /\ frame.presents = 0
    /\ pc \in RebuildPcs \cup ReturnedPcs
    /\ pc \in ReturnedPcs => frame.rebuilds = 1

\* renderer_draw has returned after a rebuild that acquire triggered
C2_Witness ==
  /\ pc = "loop"
  /\ frame.trigger = "acquire"
  /\ frame.rebuilds = 1
  /\ in_flight_fence = "signaled"

(***************************************************************************)
(* C3.  If acquire returns suboptimal or out-of-date on frame N, no draw   *)
(* is submitted for frame N and the swapchain handle after the call is a   *)
(* newly created one; the next call passes its fence wait, acquires from   *)
(* the rebuilt chain and, when acquire and present report success, makes   *)
(* each of reset, record, submit and present once and rebuilds nothing.    *)
(***************************************************************************)
C3_StaleAcquireThenNormalFrame ==
  /\ (frame.trigger = "acquire" /\ pc \in {"loop", "draw_wait"}) =>
       /\ frame.submits = 0
       /\ swapchain # frame.chain
       /\ swapchain \in liveSwapchains
       /\ frame.chain \notin liveSwapchains
       /\ in_flight_fence = "signaled"
  /\ (prev = "acquire" /\ pc \in DrawPcs) =>
       /\ frame.chain = swapchain
       /\ swapchain \in liveSwapchains
       /\ Handles(swapchain_framebuffers, swapchain_image_count)
            \subseteq liveFramebuffers
  /\ (/\ prev = "acquire"
      /\ frame.acquire_result = VK_SUCCESS
      /\ frame.present_result = VK_SUCCESS) =>
       /\ frame.acquires = 1
       /\ frame.fence_resets = 1
       /\ frame.cb_resets = 1
       /\ frame.records = 1
       /\ frame.submits = 1
       /\ frame.presents = 1
       /\ frame.rebuilds = 0
       /\ frame.trigger = "none"

\* frame N+1 has run through present with success, after a frame N whose
\* acquire was stale
C3_Witness ==
  /\ pc = "loop"
  /\ prev = "acquire"
  /\ frame.acquire_result = VK_SUCCESS
  /\ frame.present_result = VK_SUCCESS
  /\ frame.submits = 1


(***************************************************************************)
(* C4, as claimed.  For every frame that triggers a swapchain rebuild,     *)
(* whether the staleness code came from acquire or from present, no draw   *)
(* has been submitted to the graphics queue for that frame.                *)
(***************************************************************************)
C4_NoSubmitInRebuildFrame ==
  frame.trigger # "none" => frame.submits = 0

(***************************************************************************)
(* C4, amended.  A frame whose rebuild is triggered by acquire has made no *)
(* vkQueueSubmit call; a frame whose rebuild is triggered by present has   *)
(* made its one vkQueueSubmit call, and its one present call, before the   *)
(* rebuild.                                                                *)
(***************************************************************************)
C4_SubmitOnlyBeforePresentRebuild ==
  /\ frame.trigger = "acquire" => (frame.submits = 0 /\ frame.presents = 0)
  /\ frame.trigger = "present" => (frame.submits = 1 /\ frame.presents = 1)

\* a rebuild triggered by present has finished, in a frame that submitted
C4_Witness ==
  /\ pc = "loop"
  /\ frame.trigger = "present"
  /\ frame.rebuilds = 1
  /\ frame.submits = 1

(***************************************************************************)
(* C5.  Whenever update_window reports a resize, the swapchain with its    *)
(* image views and framebuffers is destroyed and rebuilt before any        *)
(* further frame is drawn against the old chain: no call of renderer_draw  *)
(* goes on to reset, record, submit or present while the swapchain is      *)
(* still the one that was current when the resize was reported.            *)
(***************************************************************************)
C5_ResizeRebuildsBeforeDraw ==
  pc \in {"draw_reset", "draw_record", "draw_submit", "draw_present"} =>
    swapchain # resize_chain

(***************************************************************************)
(* C6.  A call wrapped in VK_CHECK that returns a result other than        *)
(* success makes the process terminate with a non-zero status after        *)
(* logging, and no later API call is made.                                 *)
(***************************************************************************)
C6_VkCheckFailureIsFatal ==
  /\ vk_errors > 0 => (pc = "exited" /\ exit_status # 0)
  /\ ~called_after_error

(***************************************************************************)
(* C7.  After create_renderer has returned and outside a rebuild, the      *)
(* image, image-view and framebuffer sequences all have length             *)
(* swapchain_image_count, index i of each refers to the same image, and    *)
(* the length changes only as part of a rebuild.                           *)
(***************************************************************************)
C7_IndexAlignment ==
  /\ [](StableChain =>
         /\ Len(swapchain_images) = swapchain_image_count
         /\ Len(swapchain_image_views) = swapchain_image_count
         /\ Len(swapchain_framebuffers) = swapchain_image_count
         /\ \A i \in 1..swapchain_image_count :
              /\ swapchain_images[i] = Image(swapchain, i)
              /\ swapchain_image_views[i].image = swapchain_images[i]
              /\ swapchain_framebuffers[i].attachment
                   = swapchain_image_views[i])
  /\ [][(StableChain /\ StableChain') =>
          /\ swapchain_image_count' = swapchain_image_count
          /\ Len(swapchain_images') = Len(swapchain_images)
          /\ Len(swapchain_image_views') = Len(swapchain_image_views)
          /\ Len(swapchain_framebuffers') = Len(swapchain_framebuffers)]_vars

\* a rebuild has changed the number of images of a chain with several images
C7_Witness ==
  /\ pc = "loop"
  /\ frame.rebuilds = 1
  /\ swapchain_image_count # frame.count
  /\ swapchain_image_count >= 2
  /\ Len(swapchain_framebuffers) = swapchain_image_count

(***************************************************************************)
(* C8.  After renderer_create_swapchain, at initial creation and in any    *)
(* rebuild, swapchain_extent equals the undefined-extent sentinel or lies  *)
(* within [minImageExtent, maxImageExtent] in both components, for every   *)
(* window size and every capability snapshot with min <= max.              *)
(***************************************************************************)
C8_ExtentWithinLimits ==
  pc = "get_swapchain_images" =>
    \/ swapchain_extent = SentinelExtent
    \/ /\ surface_caps.minImageExtent.width <= swapchain_extent.width
       /\ swapchain_extent.width <= surface_caps.maxImageExtent.width
       /\ surface_caps.minImageExtent.height <= swapchain_extent.height
       /\ swapchain_extent.height <= surface_caps.maxImageExtent.height

\* a window wider than the maximum and lower than the minimum was resolved
C8_Witness ==
  /\ pc = "get_swapchain_images"
  /\ swapchain_extent # SentinelExtent
  /\ window.size.x > surface_caps.maxImageExtent.width
  /\ window.size.y < surface_caps.minImageExtent.height
  /\ swapchain_extent.width = surface_caps.maxImageExtent.width
  /\ swapchain_extent.height = surface_caps.minImageExtent.height

(***************************************************************************)
(* C9.  Extent resolution: when the current extent of the capability       *)
(* snapshot is the undefined sentinel, swapchain_extent equals the         *)
(* sentinel whatever the window size; otherwise each component is the      *)
(* window size, raised to the minimum when below it and lowered to the     *)
(* maximum when above it.                                                  *)
(***************************************************************************)
C9_ExtentResolution ==
  pc = "get_swapchain_images" =>
    IF surface_caps.currentExtent = SentinelExtent
      THEN swapchain_extent = SentinelExtent
      ELSE LET lo == surface_caps.minImageExtent
               hi == surface_caps.maxImageExtent
               w == swapchain_extent.width
               h == swapchain_extent.height
           IN  /\ window.size.x < lo.width => w = lo.width
               /\ window.size.x > hi.width => w = hi.width
               /\ (lo.width <= window.size.x /\ window.size.x <= hi.width)
                    => w = window.size.x
               /\ window.size.y < lo.height => h = lo.height
               /\ window.size.y > hi.height => h = hi.height
               /\ (lo.height <= window.size.y /\ window.size.y <= hi.height)
                    => h = window.size.y

\* the sentinel with a window of 800x600 and limits 1x1 to 4096x4096
C9_Witness ==
  /\ pc = "get_swapchain_images"
  /\ window.size = [x |-> 800, y |-> 600]
  /\ surface_caps.currentExtent = SentinelExtent
  /\ surface_caps.minImageExtent = Extent(1, 1)
  /\ surface_caps.maxImageExtent = Extent(4096, 4096)
  /\ swapchain_extent = SentinelExtent

(***************************************************************************)
(* C10.  The resolved swapchain image count is minImageCount + 1, clamped  *)
(* down to maxImageCount whenever maxImageCount is nonzero and smaller     *)
(* than minImageCount + 1; it never exceeds a nonzero maxImageCount.       *)
(***************************************************************************)
C10_ImageCountClamped ==
  pc = "get_swapchain_images" =>
    /\ swapchain_image_count =
         IF /\ surface_caps.maxImageCount # 0
            /\ surface_caps.maxImageCount < surface_caps.minImageCount + 1
           THEN surface_caps.maxImageCount
           ELSE surface_caps.minImageCount + 1
    /\ surface_caps.maxImageCount # 0 =>
         swapchain_image_count <= surface_caps.maxImageCount

(***************************************************************************)
(* C11.  When the capability snapshot reports maxImageCount = 0 the        *)
(* maximum is unbounded: renderer_create_swapchain resolves the image      *)
(* count to exactly minImageCount + 1.                                     *)
(***************************************************************************)
C11_UnboundedMaxImageCount ==
  (pc = "get_swapchain_images" /\ surface_caps.maxImageCount = 0) =>
    swapchain_image_count = surface_caps.minImageCount + 1

\* minImageCount = 2, maxImageCount = 0 resolved to 3
C11_Witness ==
  /\ pc = "get_swapchain_images"
  /\ surface_caps.minImageCount = 2
  /\ surface_caps.maxImageCount = 0
  /\ swapchain_image_count = 3

(***************************************************************************)
(* C12.  Present-mode negotiation assigns a mode of the enumerated list:   *)
(* FIFO whenever FIFO is anywhere in the list, the first enumerated mode   *)
(* only when FIFO is absent.                                               *)
(***************************************************************************)
C12_PresentModeNegotiation ==
  pc = "get_swapchain_images" =>
    LET modes == enumerated.present_modes
        hasFifo == \E i \in 1..Len(modes) :
                     modes[i] = VK_PRESENT_MODE_FIFO_KHR
    IN /\ \E i \in 1..Len(modes) : present_mode = modes[i]
       /\ hasFifo => present_mode = VK_PRESENT_MODE_FIFO_KHR
       /\ ~hasFifo => present_mode = modes[1]

(***************************************************************************)
(* C13.  Queue-family resolution finds both the graphics and the present   *)
(* family, or the process exits with a non-zero status before vkCreateDevice*)
(* is called: no logical device exists while a role is unresolved, and the *)
(* indices a device is created with name families that support the roles.  *)
(***************************************************************************)
C13_NoDeviceWithoutQueueFamilies ==
  LET indices == queue_family_indices
      families == enumerated.queue_families
      resolved == indices.graphics_found /\ indices.present_found
      scanned == physical_device # NoHandle /\ pc # "find_queue_families"
  IN /\ (device # NoHandle \/ Created("device") \in
                               { api_log[i] : i \in 1..Len(api_log) }) =>
          /\ resolved
          /\ indices.graphics_family + 1 \in 1..Len(families)
          /\ families[indices.graphics_family + 1].graphics
          /\ indices.present_family + 1 \in 1..Len(families)
          /\ families[indices.present_family + 1].present
     /\ (scanned /\ ~resolved) =>
          /\ pc = "exited"
          /\ exit_status = 1
          /\ device = NoHandle
          /\ device_cinfo = NoDeviceCreateInfo

\* a device whose families support graphics but none of which presents to
\* the surface: the process has exited before vkCreateDevice
C13_Witness ==
  /\ pc = "exited"
  /\ exit_status = 1
  /\ Len(enumerated.queue_families) = 2
  /\ queue_family_indices.graphics_found
  /\ ~queue_family_indices.present_found
  /\ device = NoHandle

(***************************************************************************)
(* C14.  Queue-family resolution records the first (lowest-index) family   *)
(* that supports presentation to the surface as the present family and the *)
(* first family that supports graphics as the graphics family, and assigns *)
(* each index exactly once during the scan.                                *)
(***************************************************************************)
C14_FirstFamilyRecordedOnce ==
  LET indices == queue_family_indices
      families == enumerated.queue_families
  IN pc \in {"create_logical_device", "create_queues", "create_swapchain"} =>
       /\ \A j \in 1..Len(families) :
            families[j].present => indices.present_family + 1 <= j
       /\ \A j \in 1..Len(families) :
            families[j].graphics => indices.graphics_family + 1 <= j
       /\ indices.present_writes = 1
       /\ indices.graphics_writes = 1

(***************************************************************************)
(* C15.  When a requested layer, instance extension or device extension is *)
(* missing from the enumerated supported set, the process exits with a     *)
(* non-zero status before the corresponding create call (vkCreateInstance, *)
(* vkCreateDevice) is made; an instance or device that exists was created  *)
(* with every requested name supported and enabled (no degraded mode).     *)
(***************************************************************************)
C15_MissingNameIsFatal ==
  LET log == { api_log[i] : i \in 1..Len(api_log) }
      instanceChecked == pc # "create_instance"
      Missing(used, supported) ==
        \E i \in 1..Len(used) : used[i] \notin supported
      instanceNamesMissing ==
        \/ Missing(layers, enumerated.layers_supported)
        \/ Missing(inst_extensions_used,
                   enumerated.inst_extensions_supported)
      deviceChecked ==
        /\ physical_device # NoHandle
        /\ QueueFamiliesFound(queue_family_indices)
        /\ pc # "create_logical_device"
      deviceNamesMissing ==
        Missing(dev_extensions, enumerated.extensions_supported)
  IN /\ (instanceChecked /\ instanceNamesMissing) =>
          /\ pc = "exited"
          /\ exit_status = 1
          /\ instance = NoHandle
          /\ api_log = << >>
     /\ (deviceChecked /\ deviceNamesMissing) =>
          /\ pc = "exited"
          /\ exit_status = 1
          /\ device = NoHandle
          /\ Created("device") \notin log
     /\ (instance # NoHandle \/ Created("instance") \in log) =>
          ~instanceNamesMissing
     /\ (device # NoHandle \/ Created("device") \in log) =>
          /\ ~deviceNamesMissing
          /\ device_cinfo.enabledExtensions = dev_extensions

\* the debug build on an implementation that has the first requested layer
\* and not the second: the process has exited, no instance was created
C15_Witness ==
  /\ DEBUG
  /\ pc = "exited"
  /\ exit_status = 1
  /\ enumerated.layers_supported = { "VK_LAYER_KHRONOS_validation" }
  /\ instance = NoHandle

RECURSIVE TrailingDestroys(_)
\* the number of destroy calls that end the first k calls of the log
TrailingDestroys(k) ==
  IF k = 0 \/ api_log[k].op # "destroy" THEN 0
  ELSE 1 + TrailingDestroys(k - 1)

\* the objects destroyed since the last create call, in order
Teardown ==
  LET n == Len(api_log)
      start == n + 1 - TrailingDestroys(n)
  IN [j \in 1..(n + 1 - start) |-> api_log[start + j - 1].object]

ResourceGroup(object) ==
  CASE object \in {"image_available_semaphore", "render_finished_semaphore",
                   "in_flight_fence"} -> "sync_objects"
    [] object \in {"vert_shader_module", "frag_shader_module"} ->
         "shader_modules"
    [] OTHER -> object

\* the group each create call of the log made an object of
CreatedGroups ==
  [k \in 1..Len(api_log) |->
     IF api_log[k].op = "create" THEN ResourceGroup(api_log[k].object)
                                 ELSE "none"]

\* the place of the first create call for an object of the group
FirstCreated(made, group) ==
  LET calls == {k \in DOMAIN made : made[k] = group}
  IN CHOOSE k \in calls : \A j \in calls : k <= j

\* renderer_destroy has returned
TornDown == pc = "destroy_window"

\* every object created was destroyed once by the teardown td, each after
\* everything created from it, the device being idle
TeardownDependencyOrder(td) ==
  /\ queue = << >>
  /\ {api_log[k].object : k \in {i \in 1..Len(api_log) :
                                     api_log[i].op = "create"}}
       \subseteq {td[j] : j \in DOMAIN td}
  /\ Cardinality({td[j] : j \in DOMAIN td}) = Len(td)
  /\ \A j \in DOMAIN td :
       \A k \in DOMAIN td : td[k] \in DependsOn(td[j]) => j < k

\* the groups of the objects of the teardown td
TeardownGroups(td) == [j \in DOMAIN td |-> ResourceGroup(td[j])]

\* where the groups of the teardown were created
TeardownCreated(made, group) ==
  [j \in DOMAIN group |-> FirstCreated(made, group[j])]

(***************************************************************************)
(* C16.  As claimed: on teardown every resource is destroyed after every   *)
(* resource that depends on it, only after the device has gone idle, and   *)
(* in the reverse of the order create_renderer built them in (sync         *)
(* objects, command pool, framebuffers, pipeline, pipeline layout, shader  *)
(* modules, render pass, image views, swapchain, device, surface, debug    *)
(* messenger, instance).                                                   *)
(***************************************************************************)
C16_TeardownReverseCreation ==
  TornDown =>
    \A td \in {Teardown}, made \in {CreatedGroups} :
    \A group \in {TeardownGroups(td)} :
    \A created \in {TeardownCreated(made, group)} :
       /\ TeardownDependencyOrder(td)
       /\ \A j \in DOMAIN td : \A k \in (j + 1)..Len(td) :
            group[j] # group[k] => created[j] > created[k]

(***************************************************************************)
(* C16, amended.  On teardown every resource is destroyed after every      *)
(* resource that depends on it and only after the device has gone idle;    *)
(* the order is the reverse of the order create_renderer built them in,    *)
(* except that the render pass, which is created before the shader         *)
(* modules, is also destroyed before them.                                 *)
(***************************************************************************)
C16_TeardownDependencyOrder ==
  TornDown =>
    \A td \in {Teardown}, made \in {CreatedGroups} :
    \A group \in {TeardownGroups(td)} :
    \A created \in {TeardownCreated(made, group)} :
       /\ TeardownDependencyOrder(td)
       /\ \A j \in DOMAIN td : \A k \in (j + 1)..Len(td) :
            \/ group[j] # group[k] => created[j] > created[k]
            \/ /\ td[j] = "render_pass"
               /\ group[k] = "shader_modules"

\* the renderer is torn down after a frame was drawn on a rebuilt chain
C16_Witness ==
  /\ pc = "destroy_window"
  /\ Len(Teardown) = Len(DestroyOrder)
  /\ swapchain > 1
  /\ frame.submits = 1

(***************************************************************************)
(* C17.  A rebuild, entered from acquire or from present, runs in this     *)
(* order: wait for the device to be idle, destroy every framebuffer,       *)
(* destroy every image view, destroy the swapchain, then create the new    *)
(* swapchain, its image views and its framebuffers.  Nothing of the old    *)
(* chain is destroyed before the device is idle and nothing new is created *)
(* before the old chain is destroyed entirely.                             *)
(***************************************************************************)
C17_RebuildOrder ==
  LET oldViews == Handles(swapchain_image_views, swapchain_image_count)
      oldFramebuffers ==
        Handles(swapchain_framebuffers, swapchain_image_count)
      oldChainWhole ==
        /\ liveSwapchains = {frame.chain} /\ swapchain = frame.chain
        /\ liveImageViews = oldViews /\ Cardinality(oldViews) = frame.count
        /\ liveFramebuffers = oldFramebuffers
        /\ Cardinality(oldFramebuffers) = frame.count
  IN (caller # "create_renderer" /\ pc \in RebuildPcs) =>
       /\ pc # "rebuild_wait_idle" => queue = << >>
       /\ pc \in {"rebuild_wait_idle", "rebuild_destroy_framebuffers"} =>
            oldChainWhole
       /\ pc = "rebuild_destroy_image_views" =>
            /\ liveFramebuffers = {}
            /\ liveImageViews = oldViews
            /\ liveSwapchains = {frame.chain}
       /\ pc = "rebuild_destroy_swapchain" =>
            /\ liveFramebuffers = {} /\ liveImageViews = {}
            /\ liveSwapchains = {frame.chain}
       /\ pc = "create_swapchain" =>
            /\ liveFramebuffers = {} /\ liveImageViews = {}
            /\ liveSwapchains = {}
       /\ pc = "get_swapchain_images" =>
            /\ liveFramebuffers = {} /\ liveImageViews = {}
            /\ liveSwapchains = {swapchain} /\ swapchain # frame.chain
       /\ pc = "create_framebuffers" =>
            /\ liveFramebuffers = {}
            /\ liveImageViews = oldViews
            /\ \A v \in liveImageViews : v.image.chain = swapchain
            /\ liveSwapchains = {swapchain} /\ swapchain # frame.chain

\* a rebuild entered from present, after the frame's submission, has
\* destroyed the old chain and is about to create the new one
C17_Witness ==
  /\ pc = "create_swapchain"
  /\ caller = "draw_present"
  /\ frame.submits = 1
  /\ frame.count = 2
  /\ liveSwapchains = {}

(***************************************************************************)
(* C18.  The result of vkQueuePresentKHR is handled three ways, like that  *)
(* of acquire: success continues (renderer_draw returns normally),         *)
(* out-of-date or suboptimal runs the same rebuild and returns, any other  *)
(* result ends the process with a non-zero status.                         *)
(***************************************************************************)
C18_PresentThreeWay ==
  LET r == frame.present_result
      n == Len(api_log)
      rebuildCalls ==
        << Destroyed("framebuffers"), Destroyed("image_views"),
           Destroyed("swapchain"), Created("swapchain"),
           Created("image_views"), Created("framebuffers") >>
  IN /\ (frame.presents = 1 /\ r = VK_SUCCESS) =>
          /\ pc \in ReturnedPcs
          /\ frame.rebuilds = 0
          /\ swapchain = frame.chain
          /\ exit_status \in {0 - 1, 0}
     /\ (frame.presents = 1 /\ r \in StaleResults) =>
          /\ frame.trigger = "present"
          /\ \/ pc \in RebuildPcs /\ caller = "draw_present"
                                  /\ frame.rebuilds = 0
             \/ pc \in ReturnedPcs /\ frame.rebuilds = 1
          /\ exit_status \in {0 - 1, 0}
     /\ (frame.presents = 1 /\ r \notin StaleResults \cup {VK_SUCCESS}) =>
          /\ pc = "exited"
          /\ exit_status = 1
          /\ frame.rebuilds = 0
     /\ (pc \in {"loop", "draw_wait"} /\ frame.rebuilds = 1) =>
          /\ frame.trigger \in {"acquire", "present"}
          /\ n >= 6
          /\ [j \in 1..6 |-> api_log[n - 6 + j]] = rebuildCalls

\* renderer_draw has returned from a rebuild that a suboptimal present
\* triggered
C18_Witness ==
  /\ pc = "loop"
  /\ frame.presents = 1
  /\ frame.present_result = VK_SUBOPTIMAL_KHR
  /\ frame.rebuilds = 1
  /\ swapchain # frame.chain

\* C19: the device starts the submission of a frame only when the
\* image-available semaphore is signalled, and finishing it signals the
\* render-finished semaphore and the in-flight fence; a present starts only
\* when the render-finished semaphore is signalled.  Every submission the
\* device holds waits on image-available at the colour-attachment-output
\* stage, and every present it holds waits on render-finished.
C19_SemaphoreOrdering ==
  [][/\ \A i \in 1..Len(queue) :
          /\ queue[i].op = "draw" =>
               /\ queue[i].wait = "image_available_semaphore"
               /\ queue[i].stage =
                    "VK_PIPELINE_STAGE_COLOR_ATTACHMENT_OUTPUT_BIT"
               /\ queue[i].signal = "render_finished_semaphore"
               /\ queue[i].fence = "in_flight_fence"
          /\ queue[i].op = "present" =>
               queue[i].wait = "render_finished_semaphore"
     /\ DrawsPending <= 1
     /\ DrawsPending' < DrawsPending =>
          /\ image_available_semaphore = "signaled"
          /\ render_finished_semaphore' = "signaled"
          /\ in_flight_fence' = "signaled"
     /\ PresentsPending' < PresentsPending =>
          render_finished_semaphore = "signaled"]_vars

\* a frame whose submission and present the device has both carried out:
\* the two semaphores were signalled and waited on
C19_Witness ==
  /\ pc = "loop"
  /\ frame.acquires = 1
  /\ frame.submits = 1
  /\ frame.presents = 1
  /\ frame.present_result = VK_SUCCESS
  /\ vk_errors = 0
  /\ queue = << >>
  /\ image_available_semaphore = "unsignaled"
  /\ render_finished_semaphore = "unsignaled"
  /\ in_flight_fence = "signaled"

\* a call of renderer_draw has returned in which the acquire and the
\* present both succeeded, after a poll of the events that saw no resize
SuccessfulDrawReturned ==
  /\ pc = "loop"
  /\ ~window.resized
  /\ frame.acquires = 1
  /\ frame.acquire_result = VK_SUCCESS
  /\ frame.presents = 1
  /\ frame.present_result = VK_SUCCESS

\* C20: a call of renderer_draw in which the acquire and the present both
\* succeed and no resize occurs leaves the DeviceContext and the
\* PipelineState, viewport and scissor included, as it found them, and the
\* swapchain handle, the image count and the extent too.
C20_DrawLeavesStateUnchanged ==
  SuccessfulDrawReturned =>
    /\ DeviceContext = frame.entry.device
    /\ PipelineState = frame.entry.pipeline
    /\ swapchain = frame.chain
    /\ swapchain_image_count = frame.count
    /\ swapchain_extent = frame.entry.extent

\* C20: a call of renderer_draw in which the acquire and the present both
\* succeed and no resize occurs leaves the DeviceContext, the render pass,
\* the shader modules, the layout and the pipeline as it found them, and the
\* swapchain handle, the image count, the extent, the images, the views, the
\* framebuffers and the command pool too.  It leaves the viewport and the
\* scissor equal to the swapchain extent: they are unchanged unless the call
\* before rebuilt the swapchain with another extent.
C20_DrawLeavesHandlesUnchanged ==
  SuccessfulDrawReturned =>
    /\ DeviceContext = frame.entry.device
    /\ \A i \in 1..5 : PipelineState[i] = frame.entry.pipeline[i]
    /\ swapchain = frame.chain
    /\ swapchain_image_count = frame.count
    /\ swapchain_extent = frame.entry.extent
    /\ << swapchain_images, swapchain_image_views, swapchain_framebuffers,
          SurfaceInfo, command_pool >> = frame.entry.rest
    /\ viewport = swapchain_extent
    /\ scissor = swapchain_extent
    /\ prev = "none" => /\ viewport = frame.entry.pipeline[6]
                        /\ scissor = frame.entry.pipeline[7]
    /\ viewport # frame.entry.pipeline[6] =>
         /\ prev \in {"acquire", "present"}
         /\ frame.entry.pipeline[6] # frame.entry.extent

\* a successful call of renderer_draw that followed a rebuild to another
\* extent has rewritten the viewport and the scissor
C20_Witness ==
  /\ SuccessfulDrawReturned
  /\ prev = "acquire"
  /\ frame.records = 1
  /\ viewport # frame.entry.pipeline[6]
  /\ scissor # frame.entry.pipeline[7]
  /\ viewport = swapchain_extent

(***************************************************************************)
(* C21.  The device context, the render pass, the shader modules, the      *)
(* pipeline layout, the pipeline, the command pool, the command buffer,    *)
(* the semaphores and the fence are each created once in the lifetime of   *)
(* the process and destroyed by the teardown only; a rebuild of the        *)
(* swapchain leaves their handles as the frame found them.                 *)
(***************************************************************************)
C21_RebuildKeepsBuiltOnce ==
  LET rebuilt == {"swapchain", "image_views", "framebuffers"}
      builtOnce(call) == call.object \notin rebuilt
  IN \A calls \in {SelectSeq(api_log, builtOnce)} :
       /\ Cardinality({calls[i] : i \in DOMAIN calls}) = Len(calls)
       /\ (\E i \in DOMAIN calls : calls[i].op = "destroy") =>
            pc \in {"destroy_window", "done"}
       /\ (\/ pc \in {"loop", "draw_wait"} \cup DrawPcs
           \/ pc \in RebuildPcs /\ caller # "create_renderer") =>
            {calls[i].object : i \in DOMAIN calls} =
              {"instance", "debug_messenger", "surface", "device",
               "render_pass", "vert_shader_module", "frag_shader_module",
               "pipeline_layout", "graphics_pipeline", "command_pool",
               "command_buffer", "image_available_semaphore",
               "render_finished_semaphore", "in_flight_fence"}
       /\ (frame.acquires = 1 /\ pc \notin {"destroy_window", "done"}) =>
            /\ DeviceContext = frame.entry.device
            /\ \A i \in 1..5 : PipelineState[i] = frame.entry.pipeline[i]
            /\ command_pool = frame.entry.rest[5]
            /\ in_flight_fence # "destroyed"

\* a rebuild has returned: the chain is another one
C21_Witness ==
  /\ pc = "loop"
  /\ frame.rebuilds = 1
  /\ swapchain # frame.chain
  /\ graphics_pipeline = Handle
  /\ Len(SelectSeq(api_log, LAMBDA call : call = Created("swapchain"))) = 2

(***************************************************************************)
(* C22.  When a frame has been recorded, the viewport, the scissor and the *)
(* render area of the recording equal the swapchain extent, which is the   *)
(* extent of the framebuffer recorded into, a framebuffer of the live      *)
(* swapchain; the recording after a rebuild has the rebuilt extent.        *)
(***************************************************************************)
C22_RecordedExtentIsCurrent ==
  (pc = "draw_submit" /\ frame.records = 1) =>
    /\ command_buffer.viewport = swapchain_extent
    /\ command_buffer.scissor = swapchain_extent
    /\ command_buffer.extent = swapchain_extent
    /\ viewport = swapchain_extent
    /\ scissor = swapchain_extent
    /\ swapchain = frame.chain
    /\ command_buffer.framebuffer # NoFramebuffer =>
         /\ command_buffer.framebuffer.width = swapchain_extent.width
         /\ command_buffer.framebuffer.height = swapchain_extent.height
         /\ command_buffer.framebuffer.attachment.image.chain = swapchain

\* the first frame recorded after a rebuild to another extent
C22_Witness ==
  /\ pc = "draw_submit"
  /\ frame.records = 1
  /\ prev \in {"acquire", "present"}
  /\ frame.entry.pipeline[6] # swapchain_extent
  /\ command_buffer.viewport = swapchain_extent
  /\ command_buffer.extent = swapchain_extent

(***************************************************************************)
(* C23.  The diagnostics extension is requested, and the diagnostics       *)
(* messenger created and destroyed, in the debug configuration only: in    *)
(* the other configuration no messenger is ever created or destroyed.      *)
(***************************************************************************)
C23_MessengerOnlyInDebug ==
  /\ (\E i \in DOMAIN inst_extensions_used :
        inst_extensions_used[i] = "VK_EXT_debug_utils") <=> DEBUG
  /\ ~DEBUG =>
       /\ pc # "create_debug_messenger"
       /\ debug_messenger = NoHandle
       /\ \A i \in DOMAIN api_log : api_log[i].object # "debug_messenger"

\* update_window has polled a quit request
QuitReported == ~window.running

\* a quit request is eventually reported; running is never set again
\* (main.c:186-202), so from then on it stays reported
QuitEventuallyReported == <>[]QuitReported

\* no acquire and no present returns a result renderer_draw exits on; a
\* process that has exited stays exited
NeverFatal == []<>(pc # "exited")

\* the device completes the work it is handed
GpuCompletes == []<>(queue = << >>)

\* the process has ended with status 0, renderer_destroy and destroy_window
\* having run once each
EndedCleanly ==
  /\ pc = "done"
  /\ exit_status = 0
  /\ Len(SelectSeq(api_log, LAMBDA call : call.op = "destroy"
                                          /\ call.object = "instance")) = 1
  /\ Len(SelectSeq(api_log, LAMBDA call : call.op = "destroy"
                                          /\ call.object = "device")) = 1

DrawRanToItsEnd ==
  /\ frame.acquires = 1
  /\ \/ /\ frame.submits = 1
        /\ frame.presents = 1
        /\ \/ frame.present_result = VK_SUCCESS /\ frame.rebuilds = 0
           \/ frame.trigger = "present" /\ frame.rebuilds = 1
     \/ /\ frame.trigger = "acquire"
        /\ frame.rebuilds = 1
        /\ frame.submits = 0
        /\ frame.presents = 0

(***************************************************************************)
(* C25.  A quit request does not interrupt a frame: once the teardown has  *)
(* begun, the quit has been polled and the renderer_draw call of the       *)
(* iteration that polled it has run to its submission and present or to    *)
(* the return from a rebuild; while a renderer_draw call is in progress    *)
(* no event is polled and no teardown runs, whether or not the quit was    *)
(* polled before it.                                                       *)
(***************************************************************************)
C25_QuitBetweenIterations ==
  /\ pc \in {"destroy", "destroy_window", "done"} =>
       /\ QuitReported
       /\ window.ticks >= 1
       /\ frame.entry.tick = window.ticks
       /\ DrawRanToItsEnd
  /\ (\/ pc \in DrawPcs
      \/ pc \in RebuildPcs /\ caller # "create_renderer") =>
       /\ frame.entry.tick = window.ticks
       /\ \A i \in DOMAIN api_log :
            api_log[i] # Destroyed("instance")
  /\ (pc = "loop" /\ window.ticks >= 1) =>
       /\ frame.entry.tick = window.ticks
       /\ DrawRanToItsEnd

\* the teardown is about to begin after the frame of the iteration that
\* polled the quit was submitted and presented
C25_Witness ==
  /\ pc = "destroy"
  /\ QuitReported
  /\ frame.entry.tick = window.ticks
  /\ frame.submits = 1
  /\ frame.presents = 1
  /\ window.ticks = 1

(***************************************************************************)
(* C26.  The swapchain is created with exclusive sharing exactly when the  *)
(* graphics and the present family are the same one; otherwise it is       *)
(* created with concurrent sharing across two indices, the graphics        *)
(* family and the present family.                                          *)
(***************************************************************************)
C26_SharingMode ==
  pc = "get_swapchain_images" =>
    LET graphics == queue_family_indices.graphics_family
        present == queue_family_indices.present_family
        sharing == create_info.sharing
    IN /\ graphics # NoFamily /\ present # NoFamily
       /\ sharing.imageSharingMode \in
            {"VK_SHARING_MODE_EXCLUSIVE", "VK_SHARING_MODE_CONCURRENT"}
       /\ sharing.imageSharingMode = "VK_SHARING_MODE_EXCLUSIVE"
            <=> graphics = present
       /\ sharing.imageSharingMode = "VK_SHARING_MODE_CONCURRENT" =>
            /\ sharing.queueFamilyIndexCount = 2
            /\ Len(sharing.pQueueFamilyIndices) = 2
            /\ {sharing.pQueueFamilyIndices[1],
                sharing.pQueueFamilyIndices[2]} = {graphics, present}

\* a swapchain created for a present family that is not the graphics family
C26_Witness ==
  /\ pc = "get_swapchain_images"
  /\ queue_family_indices.graphics_family = 1
  /\ queue_family_indices.present_family = 0
  /\ create_info.sharing.imageSharingMode = "VK_SHARING_MODE_CONCURRENT"
  /\ create_info.sharing.pQueueFamilyIndices = << 1, 0 >>

(***************************************************************************)
(* C27.  Of a non-empty enumeration, renderer_pick_physical_device picks   *)
(* the first discrete GPU if there is one, else the first integrated GPU   *)
(* if there is one, else the first device.                                 *)
(***************************************************************************)
C27_PickPhysicalDevice ==
  pc = "find_queue_families" =>
    LET devices == enumerated.physical_devices
        has(type) == \E i \in DOMAIN devices : devices[i] = type
        firstOf(type) ==
          /\ devices[physical_device] = type
          /\ \A j \in 1..(physical_device - 1) : devices[j] # type
    IN /\ physical_device \in DOMAIN devices
       /\ has("DISCRETE_GPU") => firstOf("DISCRETE_GPU")
       /\ (~has("DISCRETE_GPU") /\ has("INTEGRATED_GPU")) =>
            firstOf("INTEGRATED_GPU")
       /\ (~has("DISCRETE_GPU") /\ ~has("INTEGRATED_GPU")) =>
            physical_device = 1

\* a discrete GPU enumerated after an integrated one is picked
C27_Witness ==
  /\ pc = "find_queue_families"
  /\ enumerated.physical_devices = << "INTEGRATED_GPU", "DISCRETE_GPU" >>
  /\ physical_device = 2

(***************************************************************************)
(* C28.  The format negotiated is the 8-bit BGRA sRGB format with the sRGB *)
(* non-linear colour space when the enumerated formats have that pair at   *)
(* any place, and the first enumerated format otherwise; it is always one  *)
(* of the enumerated formats.                                              *)
(***************************************************************************)
C28_FormatNegotiation ==
  pc = "get_swapchain_images" =>
    LET formats == enumerated.surface_formats
        preferred(f) ==
          /\ f.format = "VK_FORMAT_B8G8R8A8_SRGB"
          /\ f.colorSpace = "VK_COLORSPACE_SRGB_NONLINEAR_KHR"
    IN /\ \E i \in DOMAIN formats : formats[i] = surface_format
       /\ IF \E i \in DOMAIN formats : preferred(formats[i])
            THEN preferred(surface_format)
            ELSE surface_format = formats[1]

\* the preferred pair is negotiated from the second place of the list
C28_Witness ==
  /\ pc = "get_swapchain_images"
  /\ Len(enumerated.surface_formats) = 2
  /\ enumerated.surface_formats[1].format = "VK_FORMAT_R8G8B8A8_UNORM"
  /\ enumerated.surface_formats[2] = surface_format
  /\ surface_format.format = "VK_FORMAT_B8G8R8A8_SRGB"
  /\ surface_format.colorSpace = "VK_COLORSPACE_SRGB_NONLINEAR_KHR"

(***************************************************************************)
(* C29.  The device is created with one queue request for each distinct    *)
(* resolved family: two when the graphics and the present family differ,   *)
(* one when they are the same, and no family is named twice.               *)
(***************************************************************************)
C29_OneRequestPerFamily ==
  device # NoHandle =>
    LET requests == device_cinfo.queueCreateInfos
        families == {queue_family_indices.graphics_family,
                     queue_family_indices.present_family}
    IN /\ {requests[i] : i \in DOMAIN requests} = families
       /\ Len(requests) = Cardinality(families)
       /\ \A i, j \in DOMAIN requests : requests[i] = requests[j] => i = j

(***************************************************************************)
(* C30.  As claimed: the fallback that assigns the first enumerated mode   *)
(* never runs, so when the enumerated modes have no FIFO the present mode  *)
(* is left as it was before renderer_create_swapchain, unassigned.         *)
(***************************************************************************)
C30_FallbackNeverRuns ==
  (/\ pc = "get_swapchain_images"
   /\ \A i \in DOMAIN enumerated.present_modes :
        enumerated.present_modes[i] # "VK_PRESENT_MODE_FIFO_KHR") =>
    present_mode = "unassigned"

(***************************************************************************)
(* C30, amended.  The fallback that assigns the first enumerated mode      *)
(* always runs, so when the enumerated modes have no FIFO the present mode *)
(* is the first enumerated mode.                                           *)
(***************************************************************************)
C30_FallbackAlwaysRuns ==
  pc = "get_swapchain_images" =>
    /\ present_mode = enumerated.present_modes[1]
    /\ present_mode # "unassigned"

\* no FIFO among the enumerated modes: the first one is assigned
C30_Witness ==
  /\ pc = "get_swapchain_images"
  /\ enumerated.present_modes =
       << "VK_PRESENT_MODE_MAILBOX_KHR", "VK_PRESENT_MODE_IMMEDIATE_KHR" >>
  /\ present_mode = "VK_PRESENT_MODE_MAILBOX_KHR"

\* submissions the device has accepted and not finished that signal the
\* in-flight fence when they finish
FenceSubmissionsPending ==
  Len(SelectSeq(queue, LAMBDA op : op.fence = "in_flight_fence"))

(***************************************************************************)
(* C31.  Whenever renderer_draw starts with the in-flight fence            *)
(* unsignalled, a submission guarded by the fence is pending on the GPU,   *)
(* so that the fence wait returns once the GPU has made progress: on the   *)
(* first frame, after an early return on the acquire path, after a rebuild *)
(* on the present path and after a vkQueueSubmit that returned an error.   *)
(***************************************************************************)
C31_UnsignalledFenceHasSubmission ==
  (pc = "draw_wait" /\ in_flight_fence = "unsignaled") =>
    FenceSubmissionsPending > 0

(***************************************************************************)
(* C32.  At every call of vkAcquireNextImageKHR the image-available        *)
(* semaphore is unsignalled and has no signal operation pending: the       *)
(* signal of an acquire is consumed by the wait of a submission before the *)
(* next acquire, also when the acquire returned suboptimal and             *)
(* renderer_draw returned early.                                           *)
(***************************************************************************)
C32_SemaphoreUnsignalledAtAcquire ==
  pc = "draw_acquire" => image_available_semaphore = "unsignaled"

(***************************************************************************)
(* C33.  After any rebuild the colour format of the current swapchain      *)
(* images and of their image views is the attachment format the render     *)
(* pass, and with it the pipeline created against that render pass         *)
(* (main.c:1121), was created with, whatever lists of surface formats the  *)
(* device enumerates from one rebuild to the next.  The image views are    *)
(* created with the format field renderer_create_swapchain has just        *)
(* written (main.c:814).                                                   *)
(***************************************************************************)
C33_ChainFormatIsRenderPassFormat ==
  (StableChain /\ next_handle > 2) =>
    /\ create_info.imageFormat = render_pass.format
    /\ surface_format.format = render_pass.format

(***************************************************************************)
(* C34.  The image extent handed to vkCreateSwapchainKHR is the resolved   *)
(* swapchain_extent that the framebuffers, the viewport, the scissor and   *)
(* the render area use, at the initial creation and at every rebuild, for  *)
(* every capability snapshot and window size.                              *)
(***************************************************************************)
C34_CreateExtentIsSwapchainExtent ==
  swapchain # NoHandle => create_info.imageExtent = swapchain_extent

(***************************************************************************)
(* C35.  The image count renderer_create_swapchain resolves from the       *)
(* capability snapshot (minImageCount + 1, clamped) is the minImageCount   *)
(* of the create info handed to vkCreateSwapchainKHR, at the initial       *)
(* creation and at every rebuild.                                          *)
(***************************************************************************)
C35_ResolvedCountIsRequested ==
  pc = "get_swapchain_images" =>
    swapchain_image_count = create_info.minImageCount

(***************************************************************************)
(* C37.  Every framebuffer, image view and swapchain handle that the       *)
(* recording, the submission or the present uses is live when it is used:  *)
(* after any sequence of frames and rebuilds the handles belong to the     *)
(* current chain, and the framebuffer index is below the current image     *)
(* count.  The submitted command buffer uses its framebuffer until the GPU *)
(* has finished it.                                                        *)
(***************************************************************************)
C37_HandlesLiveAtUse ==
  /\ pc = "draw_record" =>
       /\ image_index < swapchain_image_count
       /\ image_index + 1 \in DOMAIN swapchain_framebuffers
       /\ swapchain_framebuffers[image_index + 1] \in liveFramebuffers
       /\ swapchain_framebuffers[image_index + 1].attachment
            \in liveImageViews
       /\ swapchain_framebuffers[image_index + 1].attachment.image.chain
            = swapchain
       /\ swapchain \in liveSwapchains
  /\ (pc = "draw_submit" \/ DrawsPending > 0) =>
       /\ command_buffer.framebuffer \in liveFramebuffers
       /\ command_buffer.framebuffer.attachment \in liveImageViews
       /\ command_buffer.framebuffer.attachment.image.chain = swapchain
       /\ swapchain \in liveSwapchains
  /\ (pc = "draw_present" \/ PresentsPending > 0) =>
       /\ swapchain \in liveSwapchains
       /\ image_index < swapchain_image_count

\* the frame after a rebuild has recorded into a framebuffer of the second
\* chain and is about to submit
C37_Witness ==
  /\ pc = "draw_submit"
  /\ swapchain = 2
  /\ frame.rebuilds = 0
  /\ command_buffer.framebuffer.attachment.image.chain = 2
  /\ 1 \notin liveSwapchains

(***************************************************************************)
(* C38.  On a clean shutdown after any sequence of frames and rebuilds     *)
(* every swapchain, image view and framebuffer ever created has been       *)
(* destroyed exactly once: no object of an earlier chain is left, and each *)
(* destroy loop, of a rebuild or of renderer_destroy, is handed            *)
(* swapchain_image_count different handles that are live, as is each       *)
(* vkDestroySwapchainKHR.                                                  *)
(***************************************************************************)
C38_DestroyedExactlyOnce ==
  LET Live(seq, live) ==
        /\ Len(seq) >= swapchain_image_count
        /\ \A i \in 1..swapchain_image_count : seq[i] \in live
        /\ \A i, j \in 1..swapchain_image_count :
             seq[i] = seq[j] => i = j
  IN
  /\ pc \in {"destroy_window", "done"} =>
       /\ liveSwapchains = {}
       /\ liveImageViews = {}
       /\ liveFramebuffers = {}
  /\ pc \in {"rebuild_destroy_framebuffers", "destroy"} =>
       Live(swapchain_framebuffers, liveFramebuffers)
  /\ pc \in {"rebuild_destroy_framebuffers", "rebuild_destroy_image_views",
             "destroy"} =>
       Live(swapchain_image_views, liveImageViews)
  /\ pc \in {"rebuild_destroy_framebuffers", "rebuild_destroy_image_views",
             "rebuild_destroy_swapchain", "destroy"} =>
       swapchain \in liveSwapchains
  /\ pc = "destroy" =>
       /\ liveFramebuffers =
            { swapchain_framebuffers[i] : i \in 1..swapchain_image_count }
       /\ liveImageViews =
            { swapchain_image_views[i] : i \in 1..swapchain_image_count }
       /\ liveSwapchains = {swapchain}

\* main() has returned 0 after two rebuilds: three chains were created and
\* nothing is left
C38_Witness ==
  /\ pc = "done"
  /\ exit_status = 0
  /\ next_handle = 4
  /\ swapchain_image_count > 1

(***************************************************************************)
(* C36.  What is allocated from the renderer's arena never exceeds         *)
(* ARENA_SIZE after any number of swapchain rebuilds: the scratch arrays   *)
(* and the per-image arrays a rebuild allocates do not accumulate from one *)
(* rebuild to the next.  Whenever the swapchain is complete the arena      *)
(* holds no more than the arrays of create_renderer up to the queues and   *)
(* the arrays of one swapchain.                                            *)
(***************************************************************************)
C36_RebuildArraysDoNotAccumulate ==
  StableChain => arena <= ChainArrays(SetupArrays)

=============================================================================
